---- MODULE Spec2Model ----
(***************************************************************************)
(* A model of jwt-compact's token codec (src/src/lib.rs): issuance with    *)
(* token() / compact_token(), parsing with UntrustedToken::try_from,       *)
(* integrity validation with validate_integrity and the time checks on     *)
(* the validated claims.                                                    *)
(*                                                                         *)
(* Text is modelled as it is on the wire: a string or byte buffer is a     *)
(* sequence of byte values 0..255 (ASCII codes for text).  base64url,      *)
(* JSON and CBOR are computed on these bytes.                              *)
(***************************************************************************)
EXTENDS Integers, Sequences, FiniteSets, TLC

(***************************************************************************)
(* Bytes and ASCII text                                                    *)
(***************************************************************************)

\* The printable ASCII characters, code 32 (space) to 126 (~), in order; the
\* double quote (34), the backslash (92) and the backtick (96) are written
\* by name.
Printable ==
  << " ", "!", "QUOTE", "#", "$", "%", "&", "'", "(", ")", "*", "+", ",", "-",
     ".", "/", "0", "1", "2", "3", "4", "5", "6", "7", "8", "9", ":", ";",
     "<", "=", ">", "?", "@", "A", "B", "C", "D", "E", "F", "G", "H", "I",
     "J", "K", "L", "M", "N", "O", "P", "Q", "R", "S", "T", "U", "V", "W",
     "X", "Y", "Z", "[", "BSLASH", "]", "^", "_", "BTICK", "a", "b", "c", "d", "e",
     "f", "g", "h", "i", "j", "k", "l", "m", "n", "o", "p", "q", "r", "s",
     "t", "u", "v", "w", "x", "y", "z", "{", "|", "}", "~" >>

\* ASCII code of a character of the table.
Ord(c) == 31 + (CHOOSE i \in 1..Len(Printable) : Printable[i] = c)

\* The bytes of a text given as a tuple of one-character strings.
Str(t) == [i \in 1..Len(t) |-> Ord(t[i])]

\* Concatenation of a sequence of byte strings.
RECURSIVE Concat(_)
Concat(ss) == IF ss = << >> THEN << >> ELSE Head(ss) \o Concat(Tail(ss))

\* s[from..to] (1-based, inclusive), empty when from > to.
Slice(s, from, to) == [i \in 1..(to - from + 1) |-> s[from + i - 1]]

\* Positions of byte b in s, ascending.
Positions(s, b) == {i \in 1..Len(s) : s[i] = b}

Dot == Ord(".")

(***************************************************************************)
(* base64url without padding (base64::URL_SAFE_NO_PAD)                     *)
(***************************************************************************)

\* The URL-safe alphabet: the character of a 6-bit value.
B64Char(v) ==
  IF v < 26 THEN 65 + v
  ELSE IF v < 52 THEN 97 + (v - 26)
  ELSE IF v < 62 THEN 48 + (v - 52)
  ELSE IF v = 62 THEN Ord("-") ELSE Ord("_")

\* The 6-bit value of a character, or -1 when it is not in the alphabet.
B64Value(c) ==
  IF c >= 65 /\ c <= 90 THEN c - 65
  ELSE IF c >= 97 /\ c <= 122 THEN c - 97 + 26
  ELSE IF c >= 48 /\ c <= 57 THEN c - 48 + 52
  ELSE IF c = Ord("-") THEN 62
  ELSE IF c = Ord("_") THEN 63
  ELSE -1

\* base64::encode_config(bytes, URL_SAFE_NO_PAD): three bytes give four
\* characters; a final group of one or two bytes gives two or three.
B64Encode(bytes) ==
  LET n == Len(bytes)
      Byte(j) == IF j <= n THEN bytes[j] ELSE 0
      Sextet(i) ==
        LET g  == (i - 1) \div 4
            r  == (i - 1) % 4
            b1 == Byte(3 * g + 1)
            b2 == Byte(3 * g + 2)
            b3 == Byte(3 * g + 3)
        IN  IF r = 0 THEN b1 \div 4
            ELSE IF r = 1 THEN (b1 % 4) * 16 + b2 \div 16
            ELSE IF r = 2 THEN (b2 % 16) * 4 + b3 \div 64
            ELSE b3 % 64
      len == (n \div 3) * 4 + (IF n % 3 = 0 THEN 0 ELSE (n % 3) + 1)
  IN  [i \in 1..len |-> B64Char(Sextet(i))]

\* The bytes of a sequence of 6-bit values whose length is not 1 mod 4:
\* four values give three bytes, a final two or three give one or two.
SextetsToBytes(v) ==
  LET n == Len(v)
      Val(j) == IF j <= n THEN v[j] ELSE 0
      Byte(i) ==
        LET g  == (i - 1) \div 3
            r  == (i - 1) % 3
            v1 == Val(4 * g + 1)
            v2 == Val(4 * g + 2)
            v3 == Val(4 * g + 3)
            v4 == Val(4 * g + 4)
        IN  IF r = 0 THEN v1 * 4 + v2 \div 16
            ELSE IF r = 1 THEN (v2 % 16) * 16 + v3 \div 4
            ELSE (v3 % 4) * 64 + v4
      len == (n \div 4) * 3 + (IF n % 4 = 0 THEN 0 ELSE (n % 4) - 1)
  IN  [i \in 1..len |-> Byte(i)]

\* base64::decode_config(chars, URL_SAFE_NO_PAD).  A character outside the
\* alphabet is InvalidByte, a length of 1 mod 4 is InvalidLength, and
\* non-zero unused bits in the last character are InvalidLastSymbol.
B64Decode(chars) ==
  LET vals == [i \in 1..Len(chars) |-> B64Value(chars[i])]
      n    == Len(chars)
  IN  IF \E i \in 1..n : vals[i] = -1
        THEN [ok |-> FALSE, cause |-> "InvalidByte", bytes |-> << >>]
      ELSE IF n % 4 = 1
        THEN [ok |-> FALSE, cause |-> "InvalidLength", bytes |-> << >>]
      ELSE IF \/ (n % 4 = 2 /\ vals[n] % 16 # 0)
              \/ (n % 4 = 3 /\ vals[n] % 4 # 0)
        THEN [ok |-> FALSE, cause |-> "InvalidLastSymbol", bytes |-> << >>]
      ELSE [ok |-> TRUE, cause |-> "", bytes |-> SextetsToBytes(vals)]

(***************************************************************************)
(* JSON text (serde_json::from_slice / serde_json::to_string)              *)
(*                                                                         *)
(* A parsed value is a record tagged by k: "str" (v: bytes), "num" (neg,   *)
(* digits of the integer part, float), "bool" (v), "null", "arr" (v: the   *)
(* items) and "obj" (v: the members [key, val] in text order, duplicates   *)
(* kept, as the derived visitors see them).                                *)
(***************************************************************************)

JStr(b) == [k |-> "str", v |-> b]
JNum(neg, digits, float) ==
  [k |-> "num", neg |-> neg, digits |-> digits, float |-> float]
JBool(b) == [k |-> "bool", v |-> b]
JNull == [k |-> "null"]
JArr(items) == [k |-> "arr", v |-> items]
JObj(members) == [k |-> "obj", v |-> members]
Member(key, val) == [key |-> key, val |-> val]

\* A parser step: success with the value and the next position, or failure.
POk(val, pos) == [ok |-> TRUE, val |-> val, pos |-> pos]
PFail(pos) == [ok |-> FALSE, val |-> JNull, pos |-> pos]

IsWs(c) == c \in {32, 9, 10, 13}
IsDigit(c) == c >= 48 /\ c <= 57

\* The first position at or after i that holds no whitespace.
RECURSIVE SkipWs(_, _)
SkipWs(s, i) == IF i <= Len(s) /\ IsWs(s[i]) THEN SkipWs(s, i + 1) ELSE i

\* Whether text lit stands in s at position i.
Matches(s, i, lit) ==
  /\ i + Len(lit) - 1 <= Len(s)
  /\ \A j \in 1..Len(lit) : s[i + j - 1] = lit[j]

\* The value of a hexadecimal digit, or -1.
HexValue(c) ==
  IF IsDigit(c) THEN c - 48
  ELSE IF c >= 97 /\ c <= 102 THEN c - 97 + 10
  ELSE IF c >= 65 /\ c <= 70 THEN c - 65 + 10
  ELSE -1

\* UTF-8 of a code point of the basic plane (a \uXXXX escape).
Utf8(cp) ==
  IF cp < 128 THEN << cp >>
  ELSE IF cp < 2048 THEN << 192 + cp \div 64, 128 + (cp % 64) >>
  ELSE << 224 + cp \div 4096, 128 + ((cp \div 64) % 64), 128 + (cp % 64) >>

\* The character an escape letter stands for, or -1.
EscapeValue(c) ==
  IF c \in {34, 92, 47} THEN c
  ELSE IF c = Ord("b") THEN 8
  ELSE IF c = Ord("f") THEN 12
  ELSE IF c = Ord("n") THEN 10
  ELSE IF c = Ord("r") THEN 13
  ELSE IF c = Ord("t") THEN 9
  ELSE -1

\* The rest of a string whose opening quote has been read, from position
\* i, with the characters read so far in acc (the guard on acc makes the
\* evaluation strict).  Surrogate escapes (\uD800..\uDFFF) are rejected:
\* pairs are not modelled.
RECURSIVE StrBody(_, _, _)
StrBody(s, i, acc) ==
  IF i > Len(s) \/ Len(acc) > Len(s) THEN PFail(i)
  ELSE IF s[i] = 34 THEN POk(JStr(acc), i + 1)
  ELSE IF s[i] < 32 THEN PFail(i)
  ELSE IF s[i] # 92 THEN StrBody(s, i + 1, Append(acc, s[i]))
  ELSE IF i + 1 > Len(s) THEN PFail(i)
  ELSE IF s[i + 1] = Ord("u") THEN
    IF i + 5 > Len(s) \/ \E j \in 2..5 : HexValue(s[i + j]) = -1
      THEN PFail(i)
    ELSE LET cp == HexValue(s[i + 2]) * 4096 + HexValue(s[i + 3]) * 256
                   + HexValue(s[i + 4]) * 16 + HexValue(s[i + 5])
         IN  IF cp >= 55296 /\ cp <= 57343 THEN PFail(i)
             ELSE StrBody(s, i + 6, acc \o Utf8(cp))
  ELSE IF EscapeValue(s[i + 1]) = -1 THEN PFail(i)
  ELSE StrBody(s, i + 2, Append(acc, EscapeValue(s[i + 1])))

ParseString(s, i) ==
  IF i <= Len(s) /\ s[i] = 34 THEN StrBody(s, i + 1, << >>) ELSE PFail(i)

\* The end (exclusive) of the run of digits that starts at i.
RECURSIVE DigitsEnd(_, _)
DigitsEnd(s, i) ==
  IF i <= Len(s) /\ IsDigit(s[i]) THEN DigitsEnd(s, i + 1) ELSE i

\* A number: -? (0 | [1-9][0-9]*) (. [0-9]+)? ([eE] [+-]? [0-9]+)?
ParseNumber(s, i) ==
  LET neg  == i <= Len(s) /\ s[i] = Ord("-")
      i0   == IF neg THEN i + 1 ELSE i
      i1   == DigitsEnd(s, i0)
      frac == i1 <= Len(s) /\ s[i1] = Ord(".")
      i2   == IF frac THEN DigitsEnd(s, i1 + 1) ELSE i1
      expo == i2 <= Len(s) /\ s[i2] \in {Ord("e"), Ord("E")}
      i3   == IF expo /\ i2 + 1 <= Len(s) /\ s[i2 + 1] \in {Ord("+"), Ord("-")}
              THEN i2 + 2 ELSE i2 + 1
      i4   == IF expo THEN DigitsEnd(s, i3) ELSE i2
  IN  IF i1 = i0 THEN PFail(i)
      ELSE IF s[i0] = 48 /\ i1 > i0 + 1 THEN PFail(i)
      ELSE IF frac /\ i2 = i1 + 1 THEN PFail(i)
      ELSE IF expo /\ i4 = i3 THEN PFail(i)
      ELSE POk(JNum(neg, [j \in 1..(i1 - i0) |-> s[i0 + j - 1] - 48],
                    frac \/ expo), i4)

RECURSIVE ParseValue(_, _)
RECURSIVE ParseItems(_, _, _)
RECURSIVE ParseMembers(_, _, _)

\* The value that starts at position i (no leading whitespace).
ParseValue(s, i) ==
  IF i > Len(s) THEN PFail(i)
  ELSE IF s[i] = 34 THEN ParseString(s, i)
  ELSE IF s[i] = Ord("-") \/ IsDigit(s[i]) THEN ParseNumber(s, i)
  ELSE IF Matches(s, i, Str(<<"t", "r", "u", "e">>)) THEN POk(JBool(TRUE), i + 4)
  ELSE IF Matches(s, i, Str(<<"f", "a", "l", "s", "e">>))
    THEN POk(JBool(FALSE), i + 5)
  ELSE IF Matches(s, i, Str(<<"n", "u", "l", "l">>)) THEN POk(JNull, i + 4)
  ELSE IF s[i] = Ord("[") THEN
    LET j == SkipWs(s, i + 1)
    IN  IF j <= Len(s) /\ s[j] = Ord("]") THEN POk(JArr(<< >>), j + 1)
        ELSE ParseItems(s, j, << >>)
  ELSE IF s[i] = Ord("{") THEN
    LET j == SkipWs(s, i + 1)
    IN  IF j <= Len(s) /\ s[j] = Ord("}") THEN POk(JObj(<< >>), j + 1)
        ELSE ParseMembers(s, j, << >>)
  ELSE PFail(i)

\* The items of an array from position i, where an item must start.
ParseItems(s, i, acc) ==
  LET After(v) ==
        LET j == SkipWs(s, v.pos)
        IN  IF ~v.ok \/ j > Len(s) THEN PFail(i)
            ELSE IF s[j] = Ord(",")
              THEN ParseItems(s, SkipWs(s, j + 1), Append(acc, v.val))
            ELSE IF s[j] = Ord("]") THEN POk(JArr(Append(acc, v.val)), j + 1)
            ELSE PFail(j)
  IN  After(ParseValue(s, i))

\* The members of an object from position i, where a key must start.
ParseMembers(s, i, acc) ==
  LET AfterKey(key) ==
        LET c == SkipWs(s, key.pos)
            AfterValue(v) ==
              LET j == SkipWs(s, v.pos)
              IN  IF ~v.ok \/ j > Len(s) THEN PFail(i)
                  ELSE IF s[j] = Ord(",")
                    THEN ParseMembers(s, SkipWs(s, j + 1),
                                      Append(acc, Member(key.val.v, v.val)))
                  ELSE IF s[j] = Ord("}")
                    THEN POk(JObj(Append(acc, Member(key.val.v, v.val))), j + 1)
                  ELSE PFail(j)
        IN  IF ~key.ok \/ c > Len(s) \/ s[c] # Ord(":") THEN PFail(i)
            ELSE AfterValue(ParseValue(s, SkipWs(s, c + 1)))
  IN  AfterKey(ParseString(s, i))

\* A whole document: one value, whitespace allowed around it, nothing after.
ParseJson(s) ==
  LET Whole(v) == IF v.ok /\ SkipWs(s, v.pos) > Len(s) THEN v ELSE PFail(1)
  IN  Whole(ParseValue(s, SkipWs(s, 1)))

\* The two hexadecimal digits of a byte, lower case.
HexDigit(v) == IF v < 10 THEN 48 + v ELSE 97 + (v - 10)

\* serde_json's escaping of one character of a string.
JsonEscape(c) ==
  IF c = 34 THEN << 92, 34 >>
  ELSE IF c = 92 THEN << 92, 92 >>
  ELSE IF c = 8 THEN << 92, Ord("b") >>
  ELSE IF c = 12 THEN << 92, Ord("f") >>
  ELSE IF c = 10 THEN << 92, Ord("n") >>
  ELSE IF c = 13 THEN << 92, Ord("r") >>
  ELSE IF c = 9 THEN << 92, Ord("t") >>
  ELSE IF c < 32
    THEN << 92, Ord("u"), 48, 48, HexDigit(c \div 16), HexDigit(c % 16) >>
  ELSE << c >>

\* A string as JSON text: quoted, with its characters escaped.
JsonString(b) ==
  << 34 >> \o Concat([i \in 1..Len(b) |-> JsonEscape(b[i])]) \o << 34 >>

\* The decimal digits of a natural number.
RECURSIVE Digits(_)
Digits(n) == IF n < 10 THEN << n >> ELSE Append(Digits(n \div 10), n % 10)

\* The natural number of a digit sequence (within 32-bit integers).
RECURSIVE Number(_)
Number(d) ==
  IF d = << >> THEN 0 ELSE Number(SubSeq(d, 1, Len(d) - 1)) * 10 + d[Len(d)]

\* An integer as JSON text.
JsonInt(n) ==
  LET d == Digits(IF n < 0 THEN -n ELSE n)
  IN  (IF n < 0 THEN << Ord("-") >> ELSE << >>)
      \o [i \in 1..Len(d) |-> 48 + d[i]]

\* An object as JSON text from its members (key bytes, value text), in
\* order, serde_json's compact form.
RECURSIVE JsonMembers(_)
JsonMembers(ms) ==
  IF ms = << >> THEN << >>
  ELSE JsonString(ms[1][1]) \o << Ord(":") >> \o ms[1][2]
       \o (IF Len(ms) > 1 THEN << Ord(",") >> ELSE << >>)
       \o JsonMembers(Tail(ms))

JsonObject(ms) == << Ord("{") >> \o JsonMembers(ms) \o << Ord("}") >>

(***************************************************************************)
(* CBOR (serde_cbor::from_slice / serde_cbor::to_vec)                      *)
(*                                                                         *)
(* A decoded item is a value of the same shape as a parsed JSON value,     *)
(* with "bytes" (v) for byte strings.  Modelled: unsigned and negative     *)
(* integers, definite byte and text strings, definite arrays, definite     *)
(* and indefinite maps with text keys, false, true and null.               *)
(***************************************************************************)

JBytes(b) == [k |-> "bytes", v |-> b]

\* Decimal digits d (most significant first) times m plus c.
RECURSIVE MulAdd(_, _, _)
MulAdd(d, m, c) ==
  IF d = << >> THEN (IF c = 0 THEN << >> ELSE Digits(c))
  ELSE LET t == d[Len(d)] * m + c
       IN  Append(MulAdd(SubSeq(d, 1, Len(d) - 1), m, t \div 10), t % 10)

\* The decimal digits of a big-endian unsigned integer.
RECURSIVE DigitsOfBytes(_, _)
DigitsOfBytes(bytes, acc) ==
  IF bytes = << >> THEN (IF acc = << >> THEN << 0 >> ELSE acc)
  ELSE DigitsOfBytes(Tail(bytes), MulAdd(acc, 256, Head(bytes)))

\* The head of an item: the argument of its initial byte, as bytes, and the
\* position after it.  The additional information 24..27 announces 1, 2, 4
\* or 8 bytes; 28..30 are reserved; 31 (indefinite) has no argument.
CborArg(s, i) ==
  LET info == s[i] % 32
      n    == IF info < 24 THEN 0
              ELSE IF info = 24 THEN 1
              ELSE IF info = 25 THEN 2
              ELSE IF info = 26 THEN 4
              ELSE 8
  IN  IF info >= 28 \/ i + n > Len(s) THEN [ok |-> FALSE, arg |-> << >>, pos |-> i]
      ELSE IF info < 24 THEN [ok |-> TRUE, arg |-> << info >>, pos |-> i + 1]
      ELSE [ok |-> TRUE, arg |-> Slice(s, i + 1, i + n), pos |-> i + 1 + n]

\* A length: an argument that fits the buffers of the model.
CborLen(arg) ==
  IF \A j \in 1..(Len(arg) - 2) : arg[j] = 0
    THEN (IF Len(arg) >= 2 THEN arg[Len(arg) - 1] * 256 ELSE 0) + arg[Len(arg)]
  ELSE -1

RECURSIVE CborItem(_, _)
RECURSIVE CborItems(_, _, _, _)
RECURSIVE CborPairs(_, _, _, _)

\* The item that starts at position i.
CborItem(s, i) ==
  IF i > Len(s) THEN PFail(i)
  ELSE
    LET major == s[i] \div 32
        info  == s[i] % 32
        WithArg(a, n) ==
          IF major = 7 THEN
            IF info = 20 THEN POk(JBool(FALSE), i + 1)
            ELSE IF info = 21 THEN POk(JBool(TRUE), i + 1)
            ELSE IF info = 22 THEN POk(JNull, i + 1)
            ELSE IF info \in {25, 26, 27} /\ a.ok
              THEN POk(JNum(FALSE, << 0 >>, TRUE), a.pos)
            ELSE PFail(i)
          ELSE IF major = 5 /\ info = 31 THEN CborPairs(s, i + 1, -1, << >>)
          ELSE IF ~a.ok THEN PFail(i)
          ELSE IF major = 0
            THEN POk(JNum(FALSE, DigitsOfBytes(a.arg, << >>), FALSE), a.pos)
          ELSE IF major = 1
            \* the value -1 - n: the digits are those of n + 1
            THEN POk(JNum(TRUE, MulAdd(DigitsOfBytes(a.arg, << >>), 1, 1), FALSE),
                     a.pos)
          ELSE IF n = -1 THEN PFail(i)
          ELSE IF major \in {2, 3} THEN
            IF a.pos + n - 1 > Len(s) THEN PFail(i)
            ELSE IF major = 2 THEN POk(JBytes(Slice(s, a.pos, a.pos + n - 1)), a.pos + n)
            ELSE POk(JStr(Slice(s, a.pos, a.pos + n - 1)), a.pos + n)
          ELSE IF major = 4 THEN CborItems(s, a.pos, n, << >>)
          ELSE IF major = 5 THEN CborPairs(s, a.pos, n, << >>)
          ELSE PFail(i)
        WithHead(a) == WithArg(a, CborLen(a.arg))
    IN  WithHead(CborArg(s, i))

\* n more items of an array.
CborItems(s, i, n, acc) ==
  IF n = 0 THEN POk(JArr(acc), i)
  ELSE LET After(v) ==
             IF ~v.ok THEN PFail(i)
             ELSE CborItems(s, v.pos, n - 1, Append(acc, v.val))
       IN  After(CborItem(s, i))

\* n more pairs of a map; n = -1: pairs up to the break byte 0xff.
CborPairs(s, i, n, acc) ==
  IF n = 0 THEN POk(JObj(acc), i)
  ELSE IF n = -1 /\ i <= Len(s) /\ s[i] = 255 THEN POk(JObj(acc), i + 1)
  ELSE
    LET AfterKey(key) ==
          LET AfterValue(v) ==
                IF ~v.ok THEN PFail(i)
                ELSE CborPairs(s, v.pos, IF n = -1 THEN -1 ELSE n - 1,
                               Append(acc, Member(key.val.v, v.val)))
          IN  IF ~key.ok \/ key.val.k # "str" THEN PFail(i)
              ELSE AfterValue(CborItem(s, key.pos))
    IN  AfterKey(CborItem(s, i))

\* A whole document: one item and nothing after it.
ParseCbor(s) ==
  LET Whole(v) == IF v.ok /\ v.pos = Len(s) + 1 THEN v ELSE PFail(1)
  IN  Whole(CborItem(s, 1))

\* The head of an item of major type m with argument n, n < 2^31, in the
\* shortest form.
CborHead(m, n) ==
  IF n < 24 THEN << m * 32 + n >>
  ELSE IF n < 256 THEN << m * 32 + 24, n >>
  ELSE IF n < 65536 THEN << m * 32 + 25, n \div 256, n % 256 >>
  ELSE << m * 32 + 26, n \div 16777216, (n \div 65536) % 256,
          (n \div 256) % 256, n % 256 >>

CborText(b) == CborHead(3, Len(b)) \o b

CborInt(n) == IF n >= 0 THEN CborHead(0, n) ELSE CborHead(1, -1 - n)

\* A map of unknown length, as serde writes a struct with a flattened
\* field: 0xbf, the pairs (key bytes, item bytes), the break 0xff.
CborMap(ms) ==
  << 191 >> \o Concat([i \in 1..Len(ms) |-> CborText(ms[i][1]) \o ms[i][2]])
  \o << 255 >>

(***************************************************************************)
(* Header and CompleteHeader (lib.rs, derived Serialize / Deserialize)     *)
(***************************************************************************)

\* Option<T>: None is the empty sequence, Some(x) the sequence of x alone.
None == << >>
Some(x) == << x >>

\* The positions of the members of an object that have the given key.
Occurrences(ms, key) == {i \in 1..Len(ms) : ms[i].key = key}

\* A field of type Option<String> with #[serde(default)]: absent or null is
\* None, a string is Some, anything else and a repeated key are errors.
OptionStringField(ms, key) ==
  LET occ == Occurrences(ms, key)
      v   == ms[CHOOSE i \in occ : TRUE].val
  IN  IF occ = {} THEN [ok |-> TRUE, v |-> None]
      ELSE IF Cardinality(occ) > 1 THEN [ok |-> FALSE, v |-> None]
      ELSE IF v.k = "str" THEN [ok |-> TRUE, v |-> Some(v.v)]
      ELSE IF v.k = "null" THEN [ok |-> TRUE, v |-> None]
      ELSE [ok |-> FALSE, v |-> None]

\* A defective StringField: a repeated key is not refused, the first
\* occurrence wins.
StringFieldFirstWins(ms, key) ==
  LET occ == Occurrences(ms, key)
      v   == ms[CHOOSE i \in occ : \A j \in occ : i <= j].val
  IN  IF occ # {} /\ v.k = "str"
        THEN [ok |-> TRUE, v |-> v.v]
      ELSE [ok |-> FALSE, v |-> << >>]

\* A field of type String without a default: exactly one member, a string.
StringField(ms, key) ==
  LET occ == Occurrences(ms, key)
      v   == ms[CHOOSE i \in occ : TRUE].val
  IN  IF Cardinality(occ) = 1 /\ v.k = "str"
        THEN [ok |-> TRUE, v |-> v.v]
      ELSE [ok |-> FALSE, v |-> << >>]

\* The wire names of Header's fields, in declaration order.
HeaderWireNames ==
  << Str(<<"j", "k", "u">>), Str(<<"k", "i", "d">>), Str(<<"x", "5", "u">>),
     Str(<<"x", "5", "t">>), Str(<<"t", "y", "p">>) >>

\* Header as the sequence of its fields, in declaration order.
HeaderFields(h) ==
  << h.key_set_url, h.key_id, h.certificate_url, h.certificate_thumbprint,
     h.signature_type >>

Header(jku, kid, x5u, x5t, typ) ==
  [key_set_url |-> jku, key_id |-> kid, certificate_url |-> x5u,
   certificate_thumbprint |-> x5t, signature_type |-> typ]

\* Header::default()
DefaultHeader == Header(None, None, None, None, None)

AlgKey == Str(<<"a", "l", "g">>)
CtyKey == Str(<<"c", "t", "y">>)

\* The members an Option<String> field with skip_serializing_if =
\* "Option::is_none" contributes.
OptionMember(name, opt) ==
  IF opt = None THEN << >> ELSE << << name, JsonString(opt[1]) >> >>

\* serde_json::to_string(&CompleteHeader): alg, then cty when set, then the
\* flattened Header fields that are set.
SerializeCompleteHeader(ch) ==
  JsonObject(
    << << AlgKey, JsonString(ch.algorithm) >> >>
    \o OptionMember(CtyKey, ch.content_type)
    \o Concat([i \in 1..5 |-> OptionMember(HeaderWireNames[i],
                                           HeaderFields(ch.inner)[i])]))

\* serde_json::from_slice::<CompleteHeader>: a JSON object with exactly one
\* `alg`, a string; at most one `cty`; the remaining members go to the
\* flattened Header, whose unknown members are ignored.
DeserializeCompleteHeader(bytes) ==
  LET Visit(p) ==
        LET ms == p.val.v
            Build(alg, cty, f) ==
              IF alg.ok /\ cty.ok /\ \A i \in 1..5 : f[i].ok
                THEN [ok |-> TRUE, algorithm |-> alg.v, content_type |-> cty.v,
                      inner |-> Header(f[1].v, f[2].v, f[3].v, f[4].v, f[5].v)]
              ELSE [ok |-> FALSE]
        IN  IF p.ok /\ p.val.k = "obj"
              THEN Build(StringField(ms, AlgKey), OptionStringField(ms, CtyKey),
                         [i \in 1..5 |-> OptionStringField(ms, HeaderWireNames[i])])
            ELSE [ok |-> FALSE]
  IN  Visit(ParseJson(bytes))

\* str::eq_ignore_ascii_case
ToAsciiLower(c) == IF c >= 65 /\ c <= 90 THEN c + 32 ELSE c
\* A defective comparison: the letter case matters.
eq_case_sensitive(a, b) == a = b

eq_ignore_ascii_case(a, b) ==
  /\ Len(a) = Len(b)
  /\ \A i \in 1..Len(a) : ToAsciiLower(a[i]) = ToAsciiLower(b[i])

(***************************************************************************)
(* Claims<T> (claims.rs, not part of the sources at hand: modelled from    *)
(* the specification, the crate documentation and the tests in lib.rs).    *)
(* T is the documentation's CustomClaims: one string field `sub`.          *)
(***************************************************************************)

\* A point in time: whole seconds since the epoch and the nanoseconds
\* within the second.
DateTime(secs, nanos) == [secs |-> secs, nanos |-> nanos]

Claims(iat, exp, nbf, custom) ==
  [issued_at |-> iat, expiration_date |-> exp, not_before |-> nbf,
   custom |-> custom]

CustomClaims(sub) == [subject |-> sub]

ExpKey == Str(<<"e", "x", "p">>)
NbfKey == Str(<<"n", "b", "f">>)
IatKey == Str(<<"i", "a", "t">>)
SubKey == Str(<<"s", "u", "b">>)

\* The member of a timestamp field that is set: a numeric Unix timestamp,
\* the whole seconds of the time.
TimestampMember(name, opt, cbor) ==
  IF opt = None THEN << >>
  ELSE << << name, IF cbor THEN CborInt(opt[1].secs) ELSE JsonInt(opt[1].secs) >> >>

\* The members of the claims object: the reserved fields that are set, then
\* the custom payload at the same level.
ClaimsMembers(c, cbor) ==
  TimestampMember(ExpKey, c.expiration_date, cbor)
  \o TimestampMember(NbfKey, c.not_before, cbor)
  \o TimestampMember(IatKey, c.issued_at, cbor)
  \o << << SubKey, IF cbor THEN CborText(c.custom.subject)
                   ELSE JsonString(c.custom.subject) >> >>

\* serde_json::to_string(claims)
SerializeClaimsJson(c) == JsonObject(ClaimsMembers(c, FALSE))

\* serde_cbor::to_vec(claims)
SerializeClaimsCbor(c) == CborMap(ClaimsMembers(c, TRUE))

\* The largest and smallest timestamps a DateTime<Utc> holds, as digits:
\* 8210298412799 and -8334632851200.
MaxTimestampDigits == << 8, 2, 1, 0, 2, 9, 8, 4, 1, 2, 7, 9, 9 >>
MinTimestampDigits == << 8, 3, 3, 4, 6, 3, 2, 8, 5, 1, 2, 0, 0 >>

\* a <= b for digit sequences without leading zeros.
RECURSIVE DigitsLeq(_, _)
DigitsLeq(a, b) ==
  IF Len(a) # Len(b) THEN Len(a) < Len(b)
  ELSE IF a = << >> THEN TRUE
  ELSE IF a[1] # b[1] THEN a[1] < b[1]
  ELSE DigitsLeq(Tail(a), Tail(b))

\* A timestamp field: absent is None; present, it must be one integer
\* within the range of DateTime<Utc>.
TimestampField(ms, key) ==
  LET occ == Occurrences(ms, key)
      v   == ms[CHOOSE i \in occ : TRUE].val
  IN  IF occ = {} THEN [ok |-> TRUE, v |-> None]
      ELSE IF Cardinality(occ) > 1 THEN [ok |-> FALSE, v |-> None]
      ELSE IF v.k # "num" THEN [ok |-> FALSE, v |-> None]
      ELSE IF v.float THEN [ok |-> FALSE, v |-> None]
      ELSE IF ~DigitsLeq(v.digits, IF v.neg THEN MinTimestampDigits
                                   ELSE MaxTimestampDigits)
        THEN [ok |-> FALSE, v |-> None]
      ELSE [ok |-> TRUE,
            v |-> Some(DateTime(IF v.neg THEN -Number(v.digits)
                                ELSE Number(v.digits), 0))]

\* Claims<CustomClaims> from a parsed document.
DeserializeClaims(p) ==
  LET ms == p.val.v
      Build(exp, nbf, iat, sub) ==
        IF exp.ok /\ nbf.ok /\ iat.ok /\ sub.ok
          THEN [ok |-> TRUE,
                claims |-> Claims(iat.v, exp.v, nbf.v, CustomClaims(sub.v))]
        ELSE [ok |-> FALSE]
  IN  IF p.ok /\ p.val.k = "obj"
        THEN Build(TimestampField(ms, ExpKey), TimestampField(ms, NbfKey),
                   TimestampField(ms, IatKey), StringField(ms, SubKey))
      ELSE [ok |-> FALSE]

\* serde_json::from_slice::<Claims<T>>
DeserializeClaimsJson(bytes) == DeserializeClaims(ParseJson(bytes))

\* serde_cbor::from_slice::<Claims<T>>
DeserializeClaimsCbor(bytes) == DeserializeClaims(ParseCbor(bytes))

(***************************************************************************)
(* Algorithm (lib.rs: the trait; its implementations live in alg.rs, not   *)
(* part of the sources at hand, and stand on cryptographic primitives).    *)
(* Three algorithms are modelled with short signatures: two MACs and one   *)
(* signature scheme whose signatures have a structural constraint.  A key  *)
(* pair is named by a number: the signing key k matches the verifying key  *)
(* k.                                                                      *)
(***************************************************************************)

Algorithms == {"HS256", "HS384", "ES256K"}

\* Algorithm::NAME
NAME(A) ==
  CASE A = "HS256" -> Str(<<"H", "S", "2", "5", "6">>)
    [] A = "HS384" -> Str(<<"H", "S", "3", "8", "4">>)
    [] A = "ES256K" -> Str(<<"E", "S", "2", "5", "6", "K">>)

\* The length of the algorithm's signatures, in bytes.
SignatureLen(A) == IF A = "HS384" THEN 4 ELSE 3

\* A keyed digest of the message: h <- (h * mult + byte) mod modulus over
\* the bytes from position i on (the guard on h makes the evaluation strict).
RECURSIVE Digest(_, _, _, _, _)
Digest(h, message, i, mult, modulus) ==
  IF h < 0 \/ i > Len(message) THEN h
  ELSE Digest((h * mult + message[i]) % modulus, message, i + 1, mult, modulus)

\* An unsigned integer as n big-endian bytes.
RECURSIVE BigEndian(_, _)
BigEndian(v, n) ==
  IF n = 0 THEN << >> ELSE Append(BigEndian(v \div 256, n - 1), v % 256)

\* Algorithm::sign: the signature over the message under the signing key.
sign(A, signing_key, message) ==
  CASE A = "HS256" ->
         [alg |-> A,
          bytes |-> BigEndian(Digest(signing_key * 97 + 1, message, 1, 31, 16777216), 3)]
    [] A = "HS384" ->
         [alg |-> A,
          bytes |-> BigEndian(Digest(signing_key * 89 + 2, message, 1, 31, 65536), 2)
                    \o BigEndian(Digest(signing_key * 83 + 3, message, 1, 37, 65536), 2)]
    [] A = "ES256K" ->
         [alg |-> A,
          bytes |-> BigEndian(Digest(signing_key * 79 + 4, message, 1, 41, 8388608), 3)]

\* Algorithm::verify_signature
verify_signature(A, signature, verifying_key, message) ==
  signature.bytes = sign(A, verifying_key, message).bytes

\* AlgorithmSignature::try_from_slice: fails on a slice of the wrong length
\* and, for ES256K, on a leading component out of range.
try_from_slice(A, slice) ==
  IF Len(slice) # SignatureLen(A) THEN [ok |-> FALSE]
  ELSE IF A = "ES256K" /\ slice[1] >= 128 THEN [ok |-> FALSE]
  ELSE [ok |-> TRUE, signature |-> [alg |-> A, bytes |-> slice]]

\* AlgorithmSignature::as_bytes
as_bytes(signature) == signature.bytes

(***************************************************************************)
(* Issuance: AlgorithmExt::token and AlgorithmExt::compact_token           *)
(***************************************************************************)

\* A defective token(): the signature is made before the claims are
\* appended to the buffer.
token_signed_early(A, header, claims, signing_key) ==
  LET complete_header == [algorithm |-> NAME(A), content_type |-> None,
                          inner |-> header]
      buffer2 == B64Encode(SerializeCompleteHeader(complete_header)) \o << Dot >>
      buffer3 == buffer2 \o B64Encode(SerializeClaimsJson(claims))
      signature == sign(A, signing_key, buffer2)
  IN  [ok |-> TRUE,
       string |-> buffer3 \o << Dot >> \o B64Encode(as_bytes(signature)),
       signed |-> buffer2]

\* Ok(buffer).  `signed` is the message that was passed to sign.
token(A, header, claims, signing_key) ==
  LET complete_header == [algorithm |-> NAME(A), content_type |-> None,
                          inner |-> header]
      header_json == SerializeCompleteHeader(complete_header)
      buffer1 == B64Encode(header_json)
      buffer2 == buffer1 \o << Dot >>
      claims_json == SerializeClaimsJson(claims)
      buffer3 == buffer2 \o B64Encode(claims_json)
      signature == sign(A, signing_key, buffer3)
      buffer4 == buffer3 \o << Dot >>
      buffer5 == buffer4 \o B64Encode(as_bytes(signature))
  IN  [ok |-> TRUE, string |-> buffer5, signed |-> buffer3]

\* A defective compact_token(): the content type is not written to the
\* header.
compact_token_untagged(A, header, claims, signing_key) ==
  LET complete_header == [algorithm |-> NAME(A), content_type |-> None,
                          inner |-> header]
      buffer3 == B64Encode(SerializeCompleteHeader(complete_header)) \o << Dot >>
                 \o B64Encode(SerializeClaimsCbor(claims))
      signature == sign(A, signing_key, buffer3)
  IN  [ok |-> TRUE,
       string |-> buffer3 \o << Dot >> \o B64Encode(as_bytes(signature)),
       signed |-> buffer3]

compact_token(A, header, claims, signing_key) ==
  LET complete_header == [algorithm |-> NAME(A),
                          content_type |-> Some(Str(<<"C", "B", "O", "R">>)),
                          inner |-> header]
      header_json == SerializeCompleteHeader(complete_header)
      buffer1 == B64Encode(header_json)
      buffer2 == buffer1 \o << Dot >>
      claims_cbor == SerializeClaimsCbor(claims)
      buffer3 == buffer2 \o B64Encode(claims_cbor)
      signature == sign(A, signing_key, buffer3)
      buffer4 == buffer3 \o << Dot >>
      buffer5 == buffer4 \o B64Encode(as_bytes(signature))
  IN  [ok |-> TRUE, string |-> buffer5, signed |-> buffer3]

(***************************************************************************)
(* Parsing: UntrustedToken::try_from                                       *)
(***************************************************************************)

\* Maximum "reasonable" signature size in bytes.
SIGNATURE_SIZE == 128

\* str::splitn(n, sep): at most n pieces, the last holding the rest.
RECURSIVE splitn(_, _, _)
splitn(s, n, sep) ==
  LET at == Positions(s, sep)
      i  == CHOOSE j \in at : \A k \in at : j <= k
  IN  IF n <= 1 \/ at = {} THEN << s >>
      ELSE << Slice(s, 1, i - 1) >> \o splitn(Slice(s, i + 1, Len(s)), n - 1, sep)

\* str::rsplitn(n, sep): as splitn, from the end of the string.
RECURSIVE rsplitn(_, _, _)
rsplitn(s, n, sep) ==
  LET at == Positions(s, sep)
      i  == CHOOSE j \in at : \A k \in at : j >= k
  IN  IF n <= 1 \/ at = {} THEN << s >>
      ELSE << Slice(s, i + 1, Len(s)) >> \o rsplitn(Slice(s, 1, i - 1), n - 1, sep)

ParseErr(kind, detail) == [ok |-> FALSE, err |-> kind, detail |-> detail]

\* A defective DecodeSignature: the buffer has three bytes for every four
\* characters, without rounding up, and the decoder fills what there is.
DecodeSignatureRoundedDown(signature) ==
  LET size    == 3 * (Len(signature) \div 4)
      decoded == B64Decode(signature)
      kept    == IF Len(decoded.bytes) <= size THEN Len(decoded.bytes) ELSE size
  IN  [ok |-> decoded.ok, cause |-> decoded.cause,
       fits |-> Len(decoded.bytes) <= size,
       spilled |-> size > SIGNATURE_SIZE,
       bytes |-> SubSeq(decoded.bytes, 1, kept)]

\* The signature segment decoded into a buffer of 3 * (len + 3) / 4 zero
\* bytes and truncated to the decoded length.  The buffer lives inline up to
\* SIGNATURE_SIZE bytes and on the heap beyond.
DecodeSignature(signature) ==
  LET size    == (3 * (Len(signature) + 3)) \div 4
      decoded == B64Decode(signature)
      buffer  == [i \in 1..size |->
                    IF i <= Len(decoded.bytes) THEN decoded.bytes[i] ELSE 0]
  IN  [ok |-> decoded.ok, cause |-> decoded.cause,
       fits |-> Len(decoded.bytes) <= size,
       spilled |-> size > SIGNATURE_SIZE,
       bytes |-> Slice(buffer, 1, Len(decoded.bytes))]

\* A defective try_from: the string is split into at most three pieces, so
\* that further separators end up in the signature segment.
try_from_three_pieces(s) ==
  LET token_parts == splitn(s, 3, Dot)
      Decoded(header, serialized_claims, decoded_signature, complete) ==
        LET cty == complete.content_type
        IN  IF ~header.ok THEN ParseErr("Base64", << header.cause >>)
            ELSE IF ~serialized_claims.ok
              THEN ParseErr("Base64", << serialized_claims.cause >>)
            ELSE IF ~decoded_signature.ok
              THEN ParseErr("Base64", << decoded_signature.cause >>)
            ELSE IF ~complete.ok THEN ParseErr("MalformedHeader", << >>)
            ELSE IF /\ cty # None
                    /\ ~eq_ignore_ascii_case(cty[1], Str(<<"j", "s", "o", "n">>))
                    /\ ~eq_ignore_ascii_case(cty[1], Str(<<"c", "b", "o", "r">>))
              THEN ParseErr("UnsupportedContentType", cty[1])
            ELSE
              [ok |-> TRUE,
               token |->
                 [signed_data |-> rsplitn(s, 2, Dot)[2],
                  header |-> complete.inner,
                  algorithm |-> complete.algorithm,
                  content_type |->
                    IF cty = None THEN "Json"
                    ELSE IF eq_ignore_ascii_case(cty[1], Str(<<"j", "s", "o", "n">>))
                      THEN "Json"
                    ELSE "Cbor",
                  serialized_claims |-> serialized_claims.bytes,
                  signature |-> decoded_signature.bytes]]
      Split(header) ==
        Decoded(header, B64Decode(token_parts[2]), DecodeSignature(token_parts[3]),
                DeserializeCompleteHeader(header.bytes))
  IN  IF Len(token_parts) # 3 THEN ParseErr("InvalidTokenStructure", << >>)
      ELSE Split(B64Decode(token_parts[1]))

\* A defective try_from: the header is deserialized as soon as its segment
\* is decoded, before the other two segments are decoded.
try_from_header_first(s) ==
  LET token_parts == splitn(s, 4, Dot)
      Decoded(header, serialized_claims, decoded_signature, complete) ==
        LET cty == complete.content_type
        IN  IF ~header.ok THEN ParseErr("Base64", << header.cause >>)
            ELSE IF ~complete.ok THEN ParseErr("MalformedHeader", << >>)
            ELSE IF ~serialized_claims.ok
              THEN ParseErr("Base64", << serialized_claims.cause >>)
            ELSE IF ~decoded_signature.ok
              THEN ParseErr("Base64", << decoded_signature.cause >>)
            ELSE IF /\ cty # None
                    /\ ~eq_ignore_ascii_case(cty[1], Str(<<"j", "s", "o", "n">>))
                    /\ ~eq_ignore_ascii_case(cty[1], Str(<<"c", "b", "o", "r">>))
              THEN ParseErr("UnsupportedContentType", cty[1])
            ELSE
              [ok |-> TRUE,
               token |->
                 [signed_data |-> rsplitn(s, 2, Dot)[2],
                  header |-> complete.inner,
                  algorithm |-> complete.algorithm,
                  content_type |->
                    IF cty = None THEN "Json"
                    ELSE IF eq_ignore_ascii_case(cty[1], Str(<<"j", "s", "o", "n">>))
                      THEN "Json"
                    ELSE "Cbor",
                  serialized_claims |-> serialized_claims.bytes,
                  signature |-> decoded_signature.bytes]]
      Split(header) ==
        Decoded(header, B64Decode(token_parts[2]), DecodeSignature(token_parts[3]),
                DeserializeCompleteHeader(header.bytes))
  IN  IF Len(token_parts) # 3 THEN ParseErr("InvalidTokenStructure", << >>)
      ELSE Split(B64Decode(token_parts[1]))

try_from(s) ==
  LET token_parts == splitn(s, 4, Dot)
      Decoded(header, serialized_claims, decoded_signature, complete) ==
        LET cty == complete.content_type
        IN  IF ~header.ok THEN ParseErr("Base64", << header.cause >>)
            ELSE IF ~serialized_claims.ok
              THEN ParseErr("Base64", << serialized_claims.cause >>)
            ELSE IF ~decoded_signature.ok
              THEN ParseErr("Base64", << decoded_signature.cause >>)
            ELSE IF ~complete.ok THEN ParseErr("MalformedHeader", << >>)
            ELSE IF /\ cty # None
                    /\ ~eq_ignore_ascii_case(cty[1], Str(<<"j", "s", "o", "n">>))
                    /\ ~eq_ignore_ascii_case(cty[1], Str(<<"c", "b", "o", "r">>))
              THEN ParseErr("UnsupportedContentType", cty[1])
            ELSE
              [ok |-> TRUE,
               token |->
                 [signed_data |-> rsplitn(s, 2, Dot)[2],
                  header |-> complete.inner,
                  algorithm |-> complete.algorithm,
                  content_type |->
                    IF cty = None THEN "Json"
                    ELSE IF eq_ignore_ascii_case(cty[1], Str(<<"j", "s", "o", "n">>))
                      THEN "Json"
                    ELSE "Cbor",
                  serialized_claims |-> serialized_claims.bytes,
                  signature |-> decoded_signature.bytes]]
      Split(header) ==
        Decoded(header, B64Decode(token_parts[2]), DecodeSignature(token_parts[3]),
                DeserializeCompleteHeader(header.bytes))
  IN  IF Len(token_parts) # 3 THEN ParseErr("InvalidTokenStructure", << >>)
      ELSE Split(B64Decode(token_parts[1]))

(***************************************************************************)
(* Integrity validation: AlgorithmExt::validate_integrity                  *)
(***************************************************************************)

\* A call the validator makes, with the bytes it passes.
Call(fn, arg) == [fn |-> fn, arg |-> arg]

ValidationErr(kind, calls) == [ok |-> FALSE, err |-> kind, calls |-> calls]

\* A defective validate_integrity: the algorithm name is compared without
\* regard to letter case.
validate_integrity_any_case(A, untrusted, verifying_key) ==
  LET json == untrusted.content_type = "Json"
      c1 == << Call("try_from_slice", untrusted.signature) >>
      c2 == Append(c1, Call(IF json THEN "serde_json::from_slice"
                            ELSE "serde_cbor::from_slice",
                            untrusted.serialized_claims))
      c3 == Append(c2, Call("verify_signature", untrusted.signed_data))
      Steps(sig, claims) ==
        IF ~sig.ok THEN ValidationErr("MalformedSignature", c1)
        ELSE IF ~claims.ok
          THEN ValidationErr(IF json THEN "MalformedClaims"
                             ELSE "MalformedCborClaims", c2)
        ELSE IF ~verify_signature(A, sig.signature, verifying_key,
                                  untrusted.signed_data)
          THEN ValidationErr("InvalidSignature", c3)
        ELSE [ok |-> TRUE,
              token |-> [header |-> untrusted.header, claims |-> claims.claims],
              calls |-> c3]
  IN  IF ~eq_ignore_ascii_case(NAME(A), untrusted.algorithm)
        THEN ValidationErr("AlgorithmMismatch", << >>)
      ELSE Steps(try_from_slice(A, untrusted.signature),
                 IF json THEN DeserializeClaimsJson(untrusted.serialized_claims)
                 ELSE DeserializeClaimsCbor(untrusted.serialized_claims))

\* A defective validate_integrity: the signature is reconstructed but never
\* verified.
validate_integrity_unverified(A, untrusted, verifying_key) ==
  LET json == untrusted.content_type = "Json"
      c1 == << Call("try_from_slice", untrusted.signature) >>
      c2 == Append(c1, Call(IF json THEN "serde_json::from_slice"
                            ELSE "serde_cbor::from_slice",
                            untrusted.serialized_claims))
      c3 == Append(c2, Call("verify_signature", untrusted.signed_data))
      Steps(sig, claims) ==
        IF ~sig.ok THEN ValidationErr("MalformedSignature", c1)
        ELSE IF ~claims.ok
          THEN ValidationErr(IF json THEN "MalformedClaims"
                             ELSE "MalformedCborClaims", c2)
        ELSE IF FALSE
          THEN ValidationErr("InvalidSignature", c3)
        ELSE [ok |-> TRUE,
              token |-> [header |-> untrusted.header, claims |-> claims.claims],
              calls |-> c3]
  IN  IF NAME(A) # untrusted.algorithm
        THEN ValidationErr("AlgorithmMismatch", << >>)
      ELSE Steps(try_from_slice(A, untrusted.signature),
                 IF json THEN DeserializeClaimsJson(untrusted.serialized_claims)
                 ELSE DeserializeClaimsCbor(untrusted.serialized_claims))

\* A defective validate_integrity: the signature is verified before the
\* claims are deserialized.
validate_integrity_verify_first(A, untrusted, verifying_key) ==
  LET json == untrusted.content_type = "Json"
      c1 == << Call("try_from_slice", untrusted.signature) >>
      c2 == Append(c1, Call(IF json THEN "serde_json::from_slice"
                            ELSE "serde_cbor::from_slice",
                            untrusted.serialized_claims))
      c3 == Append(c2, Call("verify_signature", untrusted.signed_data))
      Steps(sig, claims) ==
        IF ~sig.ok THEN ValidationErr("MalformedSignature", c1)
        ELSE IF ~verify_signature(A, sig.signature, verifying_key,
                                  untrusted.signed_data)
          THEN ValidationErr("InvalidSignature",
                             Append(c1, Call("verify_signature", untrusted.signed_data)))
        ELSE IF ~claims.ok
          THEN ValidationErr(IF json THEN "MalformedClaims"
                             ELSE "MalformedCborClaims", c3)
        ELSE [ok |-> TRUE,
              token |-> [header |-> untrusted.header, claims |-> claims.claims],
              calls |-> c3]
  IN  IF NAME(A) # untrusted.algorithm
        THEN ValidationErr("AlgorithmMismatch", << >>)
      ELSE Steps(try_from_slice(A, untrusted.signature),
                 IF json THEN DeserializeClaimsJson(untrusted.serialized_claims)
                 ELSE DeserializeClaimsCbor(untrusted.serialized_claims))

\* A defective validate_integrity: the message verified is rebuilt from the
\* parsed header and the claims bytes instead of taken from the input.
validate_integrity_reencoded(A, untrusted, verifying_key) ==
  LET json == untrusted.content_type = "Json"
      rebuilt ==
        B64Encode(SerializeCompleteHeader(
                    [algorithm |-> untrusted.algorithm,
                     content_type |-> IF json THEN None
                                      ELSE Some(Str(<<"C", "B", "O", "R">>)),
                     inner |-> untrusted.header]))
        \o << Dot >> \o B64Encode(untrusted.serialized_claims)
      c1 == << Call("try_from_slice", untrusted.signature) >>
      c2 == Append(c1, Call(IF json THEN "serde_json::from_slice"
                            ELSE "serde_cbor::from_slice",
                            untrusted.serialized_claims))
      c3 == Append(c2, Call("verify_signature", rebuilt))
      Steps(sig, claims) ==
        IF ~sig.ok THEN ValidationErr("MalformedSignature", c1)
        ELSE IF ~claims.ok
          THEN ValidationErr(IF json THEN "MalformedClaims"
                             ELSE "MalformedCborClaims", c2)
        ELSE IF ~verify_signature(A, sig.signature, verifying_key,
                                  rebuilt)
          THEN ValidationErr("InvalidSignature", c3)
        ELSE [ok |-> TRUE,
              token |-> [header |-> untrusted.header, claims |-> claims.claims],
              calls |-> c3]
  IN  IF NAME(A) # untrusted.algorithm
        THEN ValidationErr("AlgorithmMismatch", << >>)
      ELSE Steps(try_from_slice(A, untrusted.signature),
                 IF json THEN DeserializeClaimsJson(untrusted.serialized_claims)
                 ELSE DeserializeClaimsCbor(untrusted.serialized_claims))

\* A defective validate_integrity: the header part of the message verified
\* is the parsed header serialized anew, followed by the claims segment of
\* the input.
validate_integrity_header_reserialized(A, untrusted, verifying_key) ==
  LET json == untrusted.content_type = "Json"
      rebuilt ==
        B64Encode(SerializeCompleteHeader(
                    [algorithm |-> untrusted.algorithm,
                     content_type |-> IF json THEN None
                                      ELSE Some(Str(<<"C", "B", "O", "R">>)),
                     inner |-> untrusted.header]))
        \o << Dot >> \o rsplitn(untrusted.signed_data, 2, Dot)[1]
      c1 == << Call("try_from_slice", untrusted.signature) >>
      c2 == Append(c1, Call(IF json THEN "serde_json::from_slice"
                            ELSE "serde_cbor::from_slice",
                            untrusted.serialized_claims))
      c3 == Append(c2, Call("verify_signature", rebuilt))
      Steps(sig, claims) ==
        IF ~sig.ok THEN ValidationErr("MalformedSignature", c1)
        ELSE IF ~claims.ok
          THEN ValidationErr(IF json THEN "MalformedClaims"
                             ELSE "MalformedCborClaims", c2)
        ELSE IF ~verify_signature(A, sig.signature, verifying_key,
                                  rebuilt)
          THEN ValidationErr("InvalidSignature", c3)
        ELSE [ok |-> TRUE,
              token |-> [header |-> untrusted.header, claims |-> claims.claims],
              calls |-> c3]
  IN  IF NAME(A) # untrusted.algorithm
        THEN ValidationErr("AlgorithmMismatch", << >>)
      ELSE Steps(try_from_slice(A, untrusted.signature),
                 IF json THEN DeserializeClaimsJson(untrusted.serialized_claims)
                 ELSE DeserializeClaimsCbor(untrusted.serialized_claims))

\* A defective validate_integrity: the outcome of the verification is
\* read the wrong way round.
validate_integrity_inverted(A, untrusted, verifying_key) ==
  LET json == untrusted.content_type = "Json"
      c1 == << Call("try_from_slice", untrusted.signature) >>
      c2 == Append(c1, Call(IF json THEN "serde_json::from_slice"
                            ELSE "serde_cbor::from_slice",
                            untrusted.serialized_claims))
      c3 == Append(c2, Call("verify_signature", untrusted.signed_data))
      Steps(sig, claims) ==
        IF ~sig.ok THEN ValidationErr("MalformedSignature", c1)
        ELSE IF ~claims.ok
          THEN ValidationErr(IF json THEN "MalformedClaims"
                             ELSE "MalformedCborClaims", c2)
        ELSE IF verify_signature(A, sig.signature, verifying_key,
                                 untrusted.signed_data)
          THEN ValidationErr("InvalidSignature", c3)
        ELSE [ok |-> TRUE,
              token |-> [header |-> untrusted.header, claims |-> claims.claims],
              calls |-> c3]
  IN  IF NAME(A) # untrusted.algorithm
        THEN ValidationErr("AlgorithmMismatch", << >>)
      ELSE Steps(try_from_slice(A, untrusted.signature),
                 IF json THEN DeserializeClaimsJson(untrusted.serialized_claims)
                 ELSE DeserializeClaimsCbor(untrusted.serialized_claims))

\* A defective validate_integrity: the claims are deserialized before the
\* signature is reconstructed.
validate_integrity_claims_first(A, untrusted, verifying_key) ==
  LET json == untrusted.content_type = "Json"
      c1 == << Call(IF json THEN "serde_json::from_slice"
                    ELSE "serde_cbor::from_slice",
                    untrusted.serialized_claims) >>
      c2 == Append(c1, Call("try_from_slice", untrusted.signature))
      c3 == Append(c2, Call("verify_signature", untrusted.signed_data))
      Steps(sig, claims) ==
        IF ~claims.ok
          THEN ValidationErr(IF json THEN "MalformedClaims"
                             ELSE "MalformedCborClaims", c1)
        ELSE IF ~sig.ok THEN ValidationErr("MalformedSignature", c2)
        ELSE IF ~verify_signature(A, sig.signature, verifying_key,
                                  untrusted.signed_data)
          THEN ValidationErr("InvalidSignature", c3)
        ELSE [ok |-> TRUE,
              token |-> [header |-> untrusted.header, claims |-> claims.claims],
              calls |-> c3]
  IN  IF NAME(A) # untrusted.algorithm
        THEN ValidationErr("AlgorithmMismatch", << >>)
      ELSE Steps(try_from_slice(A, untrusted.signature),
                 IF json THEN DeserializeClaimsJson(untrusted.serialized_claims)
                 ELSE DeserializeClaimsCbor(untrusted.serialized_claims))

\* The result, with the calls made on the way in `calls`.
validate_integrity(A, untrusted, verifying_key) ==
  LET json == untrusted.content_type = "Json"
      c1 == << Call("try_from_slice", untrusted.signature) >>
      c2 == Append(c1, Call(IF json THEN "serde_json::from_slice"
                            ELSE "serde_cbor::from_slice",
                            untrusted.serialized_claims))
      c3 == Append(c2, Call("verify_signature", untrusted.signed_data))
      Steps(sig, claims) ==
        IF ~sig.ok THEN ValidationErr("MalformedSignature", c1)
        ELSE IF ~claims.ok
          THEN ValidationErr(IF json THEN "MalformedClaims"
                             ELSE "MalformedCborClaims", c2)
        ELSE IF ~verify_signature(A, sig.signature, verifying_key,
                                  untrusted.signed_data)
          THEN ValidationErr("InvalidSignature", c3)
        ELSE [ok |-> TRUE,
              token |-> [header |-> untrusted.header, claims |-> claims.claims],
              calls |-> c3]
  IN  IF NAME(A) # untrusted.algorithm
        THEN ValidationErr("AlgorithmMismatch", << >>)
      ELSE Steps(try_from_slice(A, untrusted.signature),
                 IF json THEN DeserializeClaimsJson(untrusted.serialized_claims)
                 ELSE DeserializeClaimsCbor(untrusted.serialized_claims))

(***************************************************************************)
(* Time validation: Claims::validate_expiration (claims.rs, not part of    *)
(* the sources at hand: modelled from the specification)                   *)
(***************************************************************************)

\* TimeOptions: the time the configured source returns and the leeway, in
\* seconds.
TimeOptions(current_time, leeway) ==
  [current_time |-> current_time, leeway |-> leeway]

\* a is at or after b.
AtOrAfter(a, b) == a.secs > b.secs \/ (a.secs = b.secs /\ a.nanos >= b.nanos)

\* A defective validate_expiration: a token is still accepted at the very
\* instant of its expiration.
validate_expiration_strict(claims, options) ==
  LET exp == claims.expiration_date
      now == options.current_time
  IN  IF exp # None
         /\ AtOrAfter(DateTime(now.secs - options.leeway, now.nanos), exp[1])
         /\ DateTime(now.secs - options.leeway, now.nanos) # exp[1]
        THEN [ok |-> FALSE, err |-> "Expired"]
      ELSE [ok |-> TRUE, claims |-> claims]

\* Fails when an expiration is set and the current time minus the leeway is
\* at or past it; otherwise Ok with the claims themselves.
validate_expiration(claims, options) ==
  LET exp == claims.expiration_date
      now == options.current_time
  IN  IF exp # None
         /\ AtOrAfter(DateTime(now.secs - options.leeway, now.nanos), exp[1])
        THEN [ok |-> FALSE, err |-> "Expired"]
      ELSE [ok |-> TRUE, claims |-> claims]

\* A defective validate_maturity: the leeway is not added to the current
\* time.
validate_maturity_without_leeway(claims, options) ==
  LET nbf == claims.not_before
      now == options.current_time
  IN  IF nbf # None /\ ~AtOrAfter(now, nbf[1])
        THEN [ok |-> FALSE, err |-> "NotMature"]
      ELSE [ok |-> TRUE, claims |-> claims]

\* Fails when a not-before time is set and the current time plus the leeway
\* is still before it; otherwise Ok with the claims themselves.
validate_maturity(claims, options) ==
  LET nbf == claims.not_before
      now == options.current_time
  IN  IF nbf # None
         /\ ~AtOrAfter(DateTime(now.secs + options.leeway, now.nanos), nbf[1])
        THEN [ok |-> FALSE, err |-> "NotMature"]
      ELSE [ok |-> TRUE, claims |-> claims]

(***************************************************************************)
(* The inputs of the model                                                 *)
(***************************************************************************)

\* The number of key pairs.
NumKeys == 2
\* The largest timestamp (in seconds) of an issued claim.
MaxTime == 2
\* The largest leeway, in seconds.
MaxLeeway == 1
\* The largest number of separators appended to a token.
MaxExtraDots == 2

Keys == 1..NumKeys

\* Sub-second parts of the times of the model.
Nanos == {0, 500000000}

Alice == Str(<<"a", "l", "i", "c", "e">>)

\* Headers an issuer passes: the default one, and one with a key
\* identifier (that needs escaping) and a type.
Headers ==
  { DefaultHeader,
    Header(None, Some(Str(<<"k", "QUOTE", "1">>)), None, None,
           Some(Str(<<"J", "W", "T">>))) }

\* Claims an issuer passes: without reserved fields, with an issuance and an
\* expiration time, and with a not-before time.
IssuedClaims ==
  { Claims(None, None, None, CustomClaims(Alice)) }
  \cup { Claims(Some(DateTime(0, n)), Some(DateTime(t, n)), None, CustomClaims(Alice)) :
           t \in 1..MaxTime, n \in Nanos }
  \cup { Claims(None, None, Some(DateTime(t, 0)), CustomClaims(Alice)) :
           t \in 1..MaxTime }

\* The three segments joined by the separator.
Join(header, claims, signature) ==
  header \o << Dot >> \o claims \o << Dot >> \o signature

\* Byte b with bit k (0 = least significant) flipped.
FlipBit(b, k) == IF (b \div (2 ^ k)) % 2 = 1 THEN b - 2 ^ k ELSE b + 2 ^ k

\* A header text with what its author knows of it: its class and, for the
\* class "cty", the content type string and the content type it stands for.
HeaderText(class, text) ==
  [class |-> class, text |-> text, cty |-> << >>, expect |-> ""]
CtyHeaderText(A, cty, expect) ==
  [class |-> "cty",
   text |-> JsonObject(<< << AlgKey, JsonString(NAME(A)) >>,
                          << CtyKey, JsonString(cty) >> >>),
   cty |-> cty, expect |-> expect]

\* The content type strings tried, with the content type each stands for.
CtyStrings ==
  { << Str(<<"J", "S", "O", "N">>), "Json" >>,
    << Str(<<"j", "s", "o", "n">>), "Json" >>,
    << Str(<<"J", "s", "o", "N">>), "Json" >>,
    << Str(<<"C", "B", "O", "R">>), "Cbor" >>,
    << Str(<<"c", "b", "o", "r">>), "Cbor" >>,
    << Str(<<"c", "B", "o", "R">>), "Cbor" >>,
    << Str(<<"t", "x", "t">>), "Unsupported" >>,
    << Str(<<"T", "x", "T">>), "Unsupported" >>,
    << Str(<<"j", "s", "o">>), "Unsupported" >>,
    << Str(<<"C", "B", "O", "R", "x">>), "Unsupported" >>,
    << Str(<<"K", "S", "O", "N">>), "Unsupported" >>,
    << << >>, "Unsupported" >> }

AlgMember(A) == << AlgKey, JsonString(NAME(A)) >>

\* The header texts that replace the header of a token issued with
\* algorithm A (tests::malformed_header, tests::unsupported_content_type,
\* and headers that name another algorithm).
MangledHeaders(A) ==
  LET good == JsonObject(<< AlgMember(A) >>)
  IN  { HeaderText("incomplete", SubSeq(good, 1, Len(good) - 1)),
        HeaderText("incomplete", good \o << Ord("x") >>),
        HeaderText("incomplete", << Ord("[") >> \o JsonString(NAME(A)) \o << Ord("]") >>),
        HeaderText("no_alg", JsonObject(<< >>)),
        HeaderText("no_alg", JsonObject(<< << CtyKey, JsonString(Str(<<"J", "S", "O", "N">>)) >> >>)),
        HeaderText("alg_not_string", JsonObject(<< << AlgKey, JsonInt(5) >> >>)),
        HeaderText("alg_not_string",
                   JsonObject(<< << AlgKey, Str(<<"[", "1", ",", "QUOTE", "f", "o", "o", "QUOTE", "]">>) >> >>)),
        HeaderText("alg_not_string", JsonObject(<< << AlgKey, Str(<<"f", "a", "l", "s", "e">>) >> >>)),
        HeaderText("alg_twice",
                   JsonObject(<< AlgMember(A), << AlgKey, JsonString(Str(<<"n", "o", "n", "e">>)) >> >>)),
        HeaderText("alg_twice", JsonObject(<< AlgMember(A), AlgMember(A) >>)),
        HeaderText("cty_null",
                   JsonObject(<< AlgMember(A), << CtyKey, Str(<<"n", "u", "l", "l">>) >> >>)),
        HeaderText("other_alg", JsonObject(<< << AlgKey, JsonString(Str(<<"n", "o", "n", "e">>)) >> >>)),
        HeaderText("other_alg",
                   JsonObject(<< << AlgKey, JsonString([i \in 1..Len(NAME(A)) |-> ToAsciiLower(NAME(A)[i])]) >> >>)),
        HeaderText("same_alg",
                   << Ord(" "), Ord("{"), Ord(" ") >> \o JsonString(AlgKey) \o << Ord(" "), Ord(":"), Ord(" ") >>
                   \o JsonString(NAME(A)) \o << Ord("}"), Ord(" ") >>) }
      \cup { HeaderText("other_alg", JsonObject(<< AlgMember(B) >>)) : B \in Algorithms \ {A} }
      \cup { CtyHeaderText(A, c[1], c[2]) : c \in CtyStrings }

\* A claims text with its class and whether it is CBOR.
ClaimsText(class, cbor, bytes) == [class |-> class, cbor |-> cbor, bytes |-> bytes]

SubMember(cbor, sub) ==
  << SubKey, IF cbor THEN CborText(sub) ELSE JsonString(sub) >>

BigExp == Str(<<"1", "5", "0", "0", "0", "0", "0", "0", "0", "0", "0", "0", "0", "0", "0", "0", "0",
                "0", "0", "0", "0", "0", "0", "0", "0", "0", "0", "0", "0", "0", "0", "0", "0", "0">>)

\* The claims texts that replace the claims of a token
\* (tests::malformed_json_claims, and their CBOR counterparts).
MangledClaims(claims, cbor) ==
  LET good == IF cbor THEN SerializeClaimsCbor(claims) ELSE SerializeClaimsJson(claims)
      Obj(ms) == IF cbor THEN CborMap(ms) ELSE JsonObject(ms)
      Num(n) == IF cbor THEN CborInt(n) ELSE JsonInt(n)
      sub == SubMember(cbor, Alice)
  IN  { ClaimsText("truncated", cbor, SubSeq(good, 1, Len(good) - 1)),
        ClaimsText("exp_wrong_type", cbor,
                   Obj(<< << ExpKey, IF cbor THEN CborText(Str(<<"1", "5">>))
                                     ELSE JsonString(Str(<<"1", "5">>)) >>, sub >>)),
        ClaimsText("exp_wrong_type", cbor,
                   Obj(<< << ExpKey, IF cbor THEN << 244 >> ELSE Str(<<"f", "a", "l", "s", "e">>) >>, sub >>)),
        ClaimsText("exp_twice", cbor,
                   Obj(<< << ExpKey, Num(1500000000) >>, << NbfKey, Num(1400000000) >>,
                          << ExpKey, Num(1510000000) >>, sub >>)),
        ClaimsText("exp_out_of_range", cbor,
                   Obj(<< << ExpKey, IF cbor THEN << 27, 255, 255, 255, 255, 255, 255, 255, 255 >>
                                     ELSE BigExp >>, sub >>)),
        ClaimsText("wrong_format", cbor,
                   IF cbor THEN SerializeClaimsJson(claims) ELSE SerializeClaimsCbor(claims)),
        ClaimsText("other_claims", cbor,
                   Obj(<< << ExpKey, Num(1500000000) >>,
                          SubMember(cbor, Str(<<"b", "o", "b">>)) >>)) }

\* The largest of the short signatures that replace the signature of a
\* token, in bytes.
MaxShortSignature == 3
\* How far the long signatures that replace the signature of a token go
\* below and above SIGNATURE_SIZE, in bytes.
MaxSpill == 2

\* The lengths, in bytes, of the signatures that replace the signature of a
\* token: short ones, and ones around the inline capacity of the buffer.
SignatureLengths ==
  0..MaxShortSignature
  \cup (SIGNATURE_SIZE - MaxSpill - 1)..(SIGNATURE_SIZE + MaxSpill)

\* Signature bytes of the given length.
SignatureBytes(n) == [i \in 1..n |-> (i * 37 + 11) % 256]

\* What may happen to the structure of a token, to its header and to the
\* base64url text of each of its segments on the way.
Structures == {"three", "two", "four"}
HeaderFaults == {"kept", "malformed", "unsupported", "malformed_unsupported"}
SegmentFaults == {"none", "byte", "length"}

\* The header text with the given fault: without `alg`, with a content type
\* that is neither JSON nor CBOR, or both.
FaultyHeader(A, fault) ==
  LET cty == << CtyKey, JsonString(Str(<<"t", "x", "t">>)) >>
  IN  CASE fault = "malformed" -> JsonObject(<< >>)
        [] fault = "unsupported" -> JsonObject(<< AlgMember(A), cty >>)
        [] fault = "malformed_unsupported" -> JsonObject(<< cty >>)

\* A segment with the given fault: its first character replaced by '+',
\* which is not in the URL-safe alphabet, or lengthened by 'A's to a length
\* of 1 modulo 4, which no base64 text has.
FaultySegment(segment, fault) ==
  CASE fault = "none" -> segment
    [] fault = "byte" -> << Ord("+") >> \o Tail(segment)
    [] fault = "length" ->
         segment \o [i \in 1..((5 - (Len(segment) % 4)) % 4) |-> Ord("A")]

\* The decoding error that a segment with the given fault causes.
FaultCause(fault) == IF fault = "byte" THEN "InvalidByte" ELSE "InvalidLength"

\* Characters of a token that a transport may corrupt into '+'.
CorruptibleChars == {Ord("0"), Ord("e"), Ord("J")}

(***************************************************************************)
(* The state machine: a token is issued, possibly mangled on the way,      *)
(* parsed, validated and its claims are checked against the time.          *)
(***************************************************************************)

VARIABLES
  pc,         \* "start", "issued", "mangled", "parsed", "validated", "checked"
  issued,     \* what was issued: algorithm, key, header, claims, token
  wire,       \* the string that reaches the parser
  mangle,     \* what was done to the issued string on the way
  parsed,     \* the result of UntrustedToken::try_from
  validated,  \* the algorithm, key and result of validate_integrity
  checked     \* the options and result of the time check

vars == << pc, issued, wire, mangle, parsed, validated, checked >>

NoMangle == [kind |-> "none"]

Init ==
  /\ pc = "start"
  /\ issued = None
  /\ wire = << >>
  /\ mangle = NoMangle
  /\ parsed = None
  /\ validated = None
  /\ checked = None

\* The record of an issuance.
Issuance(A, key, header, claims, compact, result) ==
  [alg |-> A, key |-> key, header |-> header, claims |-> claims,
   compact |-> compact, ok |-> result.ok, string |-> result.string,
   signed |-> result.signed]

\* The issued string goes on the wire.
Issued(issuance) ==
  /\ issuance.ok
  /\ issued' = Some(issuance)
  /\ wire' = issuance.string
  /\ pc' = "issued"
  /\ UNCHANGED << mangle, parsed, validated, checked >>

\* A.token(header, &claims, &key)
IssueToken(A, key, header, claims) ==
  /\ pc = "start"
  /\ Issued(Issuance(A, key, header, claims, FALSE, token(A, header, claims, key)))

\* A.compact_token(header, &claims, &key)
IssueCompactToken(A, key, header, claims) ==
  /\ pc = "start"
  /\ Issued(Issuance(A, key, header, claims, TRUE,
                     compact_token(A, header, claims, key)))

\* The three segments of the issued string.
Segments == splitn(wire, 4, Dot)

\* The token was issued with the first key and claims without times.
PlainToken ==
  /\ issued[1].key = 1
  /\ issued[1].claims = Claims(None, None, None, CustomClaims(Alice))

Mangled(kind, string) ==
  /\ pc = "issued"
  /\ wire' = string
  /\ mangle' = kind
  /\ pc' = "mangled"
  /\ UNCHANGED << issued, parsed, validated, checked >>

\* tests::test_algorithm: one bit of the decoded signature is flipped and
\* the signature segment re-encoded.
FlipSignatureBit(i) ==
  LET signature == B64Decode(Segments[3]).bytes
      mangled_signature ==
        [j \in 1..Len(signature) |->
           IF j = (i \div 8) + 1 THEN FlipBit(signature[j], i % 8) ELSE signature[j]]
  IN  /\ pc = "issued"
      /\ i < Len(signature) * 8
      /\ Mangled([kind |-> "flip_signature_bit", bit |-> i],
                 Join(Segments[1], Segments[2], B64Encode(mangled_signature)))

\* tests::malformed_header, tests::unsupported_content_type: the header
\* segment is replaced by the encoding of another text.
ReplaceHeader ==
  /\ pc = "issued"
  /\ \E h \in MangledHeaders(issued[1].alg) :
       Mangled([kind |-> "replace_header", class |-> h.class, cty |-> h.cty,
                expect |-> h.expect],
               Join(B64Encode(h.text), Segments[2], Segments[3]))

\* tests::malformed_json_claims: the claims segment is replaced by the
\* encoding of other bytes.
ReplaceClaims ==
  /\ pc = "issued"
  /\ \E c \in MangledClaims(issued[1].claims, issued[1].compact) :
       Mangled([kind |-> "replace_claims", class |-> c.class],
               Join(Segments[1], B64Encode(c.bytes), Segments[3]))

\* The signature bits whose flip may be followed by a replacement of the
\* claims: the lowest and the highest bit of the first signature byte.
TamperedBits == {0, 7}

\* The claims segment of a token whose signature was tampered with is
\* replaced as well.
ReplaceClaimsOfTampered ==
  /\ pc = "mangled"
  /\ mangle.kind = "flip_signature_bit"
  /\ mangle.bit \in TamperedBits
  /\ PlainToken
  /\ \E c \in MangledClaims(issued[1].claims, issued[1].compact) :
       /\ wire' = Join(Segments[1], B64Encode(c.bytes), Segments[3])
       /\ mangle' = [kind |-> "flip_and_replace_claims", bit |-> mangle.bit,
                     class |-> c.class]
  /\ UNCHANGED << pc, issued, parsed, validated, checked >>

\* Several things happen to a token at once: its header is replaced, the
\* base64url text of some of its segments is damaged, and its signature
\* segment is dropped or a separator is appended.
MangleSegments(structure, header, faults) ==
  LET h == FaultySegment(IF header = "kept" THEN Segments[1]
                         ELSE B64Encode(FaultyHeader(issued[1].alg, header)),
                         faults[1])
      c == FaultySegment(Segments[2], faults[2])
      g == FaultySegment(Segments[3], faults[3])
  IN  /\ pc = "issued"
      /\ PlainToken
      /\ Mangled([kind |-> "mangle_segments", structure |-> structure,
                  header |-> header, faults |-> faults],
                 CASE structure = "three" -> Join(h, c, g)
                   [] structure = "two" -> h \o << Dot >> \o c
                   [] structure = "four" -> Join(h, c, g) \o << Dot >>)

\* The signature segment is replaced by the encoding of other bytes,
\* followed by `extra` more characters (0 or 1), which changes the length of
\* the segment modulo 4.
ReplaceSignature(n, extra) ==
  /\ pc = "issued"
  /\ PlainToken
  /\ Mangled([kind |-> "replace_signature", len |-> n, extra |-> extra],
             Join(Segments[1], Segments[2],
                  B64Encode(SignatureBytes(n)) \o [i \in 1..extra |-> Ord("A")]))

\* tests::invalid_token_structure: the separators are removed.
RemoveSeparators ==
  /\ pc = "issued"
  /\ Mangled([kind |-> "remove_separators"],
             Segments[1] \o Segments[2] \o Segments[3])

\* tests::invalid_token_structure: the string is cut at its last separator.
TruncateSignature ==
  /\ pc = "issued"
  /\ Mangled([kind |-> "truncate_signature"], Segments[1] \o << Dot >> \o Segments[2])

\* tests::invalid_token_structure: separators are appended.
AppendSeparators(n) ==
  /\ pc = "issued"
  /\ Mangled([kind |-> "append_separators", n |-> n], wire \o [i \in 1..n |-> Dot])

\* tests::base64_error_during_parsing: the last character is dropped.
TruncateLastChar ==
  /\ pc = "issued"
  /\ Mangled([kind |-> "truncate_last_char"], SubSeq(wire, 1, Len(wire) - 1))

\* tests::base64_error_during_parsing: every occurrence of a character is
\* replaced by '+', which is not in the URL-safe alphabet.
ReplaceChar(c) ==
  /\ pc = "issued"
  /\ \E i \in 1..Len(wire) : wire[i] = c
  /\ Mangled([kind |-> "replace_char", char |-> c],
             [i \in 1..Len(wire) |-> IF wire[i] = c THEN Ord("+") ELSE wire[i]])

\* UntrustedToken::try_from(wire)
Parse ==
  /\ pc \in {"issued", "mangled"}
  /\ parsed' = Some(try_from(wire))
  /\ pc' = "parsed"
  /\ UNCHANGED << issued, wire, mangle, validated, checked >>

\* A.validate_integrity(&token, &verifying_key)
ValidateIntegrity(A, verifying_key) ==
  /\ pc = "parsed"
  /\ parsed[1].ok
  /\ validated' = Some([alg |-> A, key |-> verifying_key,
                        result |-> validate_integrity(A, parsed[1].token, verifying_key)])
  /\ pc' = "validated"
  /\ UNCHANGED << issued, wire, mangle, parsed, checked >>

\* token.claims().validate_expiration(options)
ValidateExpiration(now, leeway) ==
  /\ pc = "validated"
  /\ validated[1].result.ok
  /\ checked' = Some([op |-> "validate_expiration",
                      options |-> TimeOptions(now, leeway),
                      result |-> validate_expiration(validated[1].result.token.claims,
                                                     TimeOptions(now, leeway))])
  /\ pc' = "checked"
  /\ UNCHANGED << issued, wire, mangle, parsed, validated >>

\* token.claims().validate_maturity(options)
ValidateMaturity(now, leeway) ==
  /\ pc = "validated"
  /\ validated[1].result.ok
  /\ checked' = Some([op |-> "validate_maturity",
                      options |-> TimeOptions(now, leeway),
                      result |-> validate_maturity(validated[1].result.token.claims,
                                                   TimeOptions(now, leeway))])
  /\ pc' = "checked"
  /\ UNCHANGED << issued, wire, mangle, parsed, validated >>

Next ==
  \/ \E A \in Algorithms, key \in Keys, header \in Headers, claims \in IssuedClaims :
       \/ IssueToken(A, key, header, claims)
       \/ IssueCompactToken(A, key, header, claims)
  \/ \E i \in 0..31 : FlipSignatureBit(i)
  \/ ReplaceHeader
  \/ ReplaceClaims
  \/ ReplaceClaimsOfTampered
  \/ \E n \in SignatureLengths, extra \in {0, 1} : ReplaceSignature(n, extra)
  \/ \E structure \in Structures, header \in HeaderFaults,
        faults \in [1..3 -> SegmentFaults] :
          MangleSegments(structure, header, faults)
  \/ RemoveSeparators
  \/ TruncateSignature
  \/ \E n \in 1..MaxExtraDots : AppendSeparators(n)
  \/ TruncateLastChar
  \/ \E c \in CorruptibleChars : ReplaceChar(c)
  \/ Parse
  \/ \E A \in Algorithms, key \in Keys : ValidateIntegrity(A, key)
  \/ \E t \in 0..(MaxTime + 1), n \in Nanos, leeway \in 0..MaxLeeway :
       \/ ValidateExpiration(DateTime(t, n), leeway)
       \/ ValidateMaturity(DateTime(t, n), leeway)

Spec == Init /\ [][Next]_vars

(***************************************************************************)
(* Properties                                                              *)
(***************************************************************************)

\* A validation was made.
Validated == pc \in {"validated", "checked"}

\* The result of the validation.
Result == validated[1].result

\* The token that was validated.
Untrusted == parsed[1].token

\* The validation used the algorithm and the key pair of the issuance.
SameAlgorithmAndKey ==
  validated[1].alg = issued[1].alg /\ validated[1].key = issued[1].key

\* A point in time without its sub-second part.
WholeSeconds(opt) == IF opt = None THEN None ELSE Some(DateTime(opt[1].secs, 0))

\* Claims with every timestamp cut to whole seconds.
WithWholeSeconds(c) ==
  Claims(WholeSeconds(c.issued_at), WholeSeconds(c.expiration_date),
         WholeSeconds(c.not_before), c.custom)

\* C1, as stated: an issued token, parsed and validated with the algorithm
\* and the matching key of its issuance, yields the issued header and claims
\* equal to the issued claims.
C1_RoundTripExact ==
  /\ (parsed # None /\ mangle = NoMangle => parsed[1].ok)
  /\ (Validated /\ mangle = NoMangle /\ SameAlgorithmAndKey =>
        /\ Result.ok
        /\ Result.token.header = issued[1].header
        /\ Result.token.claims = issued[1].claims)

\* C1, amended: an issued token, parsed and validated with the algorithm and
\* the matching key of its issuance, yields the issued header and the issued
\* claims with each timestamp cut to whole seconds (the issued claims
\* themselves when no timestamp has a sub-second part).
C1_RoundTrip ==
  /\ (parsed # None /\ mangle = NoMangle => parsed[1].ok)
  /\ (Validated /\ mangle = NoMangle /\ SameAlgorithmAndKey =>
        /\ Result.ok
        /\ Result.token.header = issued[1].header
        /\ Result.token.claims = WithWholeSeconds(issued[1].claims)
        /\ (\A t \in {issued[1].claims.issued_at, issued[1].claims.expiration_date,
                       issued[1].claims.not_before} : t = None \/ t[1].nanos = 0)
             => Result.token.claims = issued[1].claims)

\* A compact token whose claims carry half a second made the round trip
\* and came back without it.
C1_Witness ==
  /\ Validated /\ mangle = NoMangle /\ SameAlgorithmAndKey
  /\ issued[1].compact
  /\ issued[1].header.key_id # None
  /\ issued[1].claims.expiration_date = Some(DateTime(1, 500000000))
  /\ Result.ok
  /\ Result.token.claims.expiration_date = Some(DateTime(1, 0))

\* C2: when the algorithm name of the parsed header differs from the NAME of
\* the validating algorithm, validate_integrity returns AlgorithmMismatch
\* and has made no call before: the signature was not reconstructed, the
\* claims were not deserialized, verify_signature was not called.
C2_AlgorithmMismatchFirst ==
  Validated /\ NAME(validated[1].alg) # Untrusted.algorithm =>
    /\ ~Result.ok
    /\ Result.err = "AlgorithmMismatch"
    /\ Result.calls = << >>

\* A header naming the algorithm in lower case was met by the algorithm of
\* the issuance and its key.
C2_Witness ==
  /\ Validated /\ SameAlgorithmAndKey
  /\ mangle.kind = "replace_header" /\ mangle.class = "other_alg"
  /\ eq_ignore_ascii_case(NAME(validated[1].alg), Untrusted.algorithm)
  /\ NAME(validated[1].alg) # Untrusted.algorithm
  /\ Result.err = "AlgorithmMismatch"

\* C3: a token with one bit of its decoded signature flipped still parses,
\* and its validation with the algorithm and the matching key of the
\* issuance fails with InvalidSignature or MalformedSignature.
C3_SignatureTamper ==
  /\ (parsed # None /\ mangle.kind = "flip_signature_bit" => parsed[1].ok)
  /\ (Validated /\ mangle.kind = "flip_signature_bit" /\ SameAlgorithmAndKey =>
        /\ ~Result.ok
        /\ Result.err \in {"InvalidSignature", "MalformedSignature"})

\* The lowest bit of the last signature byte was flipped and the
\* verification refused the signature.
C3_Witness ==
  /\ Validated /\ SameAlgorithmAndKey
  /\ mangle.kind = "flip_signature_bit"
  /\ mangle.bit = 8 * (Len(Untrusted.signature) - 1)
  /\ ~Result.ok /\ Result.err = "InvalidSignature"

\* C4: try_from returns InvalidTokenStructure exactly for the strings that
\* do not hold exactly two separators.
C4_InvalidTokenStructure ==
  parsed # None =>
    ((~parsed[1].ok /\ parsed[1].err = "InvalidTokenStructure")
       <=> Cardinality(Positions(wire, Dot)) # 2)

\* A valid token with one separator appended was refused for its structure.
C4_Witness ==
  /\ parsed # None
  /\ mangle.kind = "append_separators" /\ mangle.n = 1
  /\ wire[Len(wire)] = Dot
  /\ Cardinality(Positions(wire, Dot)) = 3
  /\ ~parsed[1].ok /\ parsed[1].err = "InvalidTokenStructure"

\* The classes of header texts that are no header: not a complete JSON
\* object, without `alg`, with an `alg` that is no string, with `alg` twice.
MalformedHeaderClasses == {"incomplete", "no_alg", "alg_not_string", "alg_twice"}

\* C5: a token whose header segment encodes a text that is not a complete
\* JSON object, or has no `alg`, or an `alg` that is not a string, or `alg`
\* twice, is refused with MalformedHeader and yields no UntrustedToken.
C5_MalformedHeader ==
  /\ parsed # None
  /\ mangle.kind = "replace_header"
  /\ mangle.class \in MalformedHeaderClasses
  => /\ ~parsed[1].ok
     /\ parsed[1].err = "MalformedHeader"
     /\ "token" \notin DOMAIN parsed[1]

\* A header that is a JSON object with `alg` twice, in a token whose
\* segments are all valid base64url, was refused.
C5_Witness ==
  /\ parsed # None
  /\ mangle.kind = "replace_header" /\ mangle.class = "alg_twice"
  /\ B64Decode(Segments[2]).ok /\ B64Decode(Segments[3]).ok
  /\ ParseJson(B64Decode(Segments[1]).bytes).ok
  /\ ~parsed[1].ok /\ parsed[1].err = "MalformedHeader"

\* C6: a header without `cty`, or with "JSON" in any letter case, gives the
\* content type Json; "CBOR" in any letter case gives Cbor; any other string
\* makes try_from fail with UnsupportedContentType carrying that string
\* unchanged.
C6_ContentType ==
  /\ (parsed # None /\ mangle = NoMangle /\ ~issued[1].compact =>
        parsed[1].ok /\ Untrusted.content_type = "Json")
  /\ (parsed # None /\ mangle.kind = "replace_header" /\ mangle.class = "same_alg" =>
        parsed[1].ok /\ Untrusted.content_type = "Json")
  /\ (parsed # None /\ mangle.kind = "replace_header" /\ mangle.class = "cty" =>
        CASE mangle.expect = "Json" ->
               parsed[1].ok /\ Untrusted.content_type = "Json"
          [] mangle.expect = "Cbor" ->
               parsed[1].ok /\ Untrusted.content_type = "Cbor"
          [] mangle.expect = "Unsupported" ->
               /\ ~parsed[1].ok
               /\ parsed[1].err = "UnsupportedContentType"
               /\ parsed[1].detail = mangle.cty)

\* A header with the content type "cBoR" was parsed as Cbor.
C6_Witness ==
  /\ parsed # None
  /\ mangle.kind = "replace_header" /\ mangle.class = "cty"
  /\ mangle.cty = Str(<<"c", "B", "o", "R">>)
  /\ parsed[1].ok /\ Untrusted.content_type = "Cbor"

\* The classes of claims bytes that are no Claims<T>: truncated, `exp` of a
\* wrong type, `exp` twice, `exp` out of the range of timestamps.
MalformedClaimsClasses ==
  {"truncated", "exp_wrong_type", "exp_twice", "exp_out_of_range"}

\* C7: when the declared algorithm matches and the signature bytes are well
\* formed, claims bytes that do not deserialize make validate_integrity fail
\* with MalformedClaims for a Json token and MalformedCborClaims for a Cbor
\* token, although the signature does not verify over the modified token.
C7_MalformedClaims ==
  /\ Validated
  /\ mangle.kind = "replace_claims"
  /\ mangle.class \in MalformedClaimsClasses
  /\ NAME(validated[1].alg) = Untrusted.algorithm
  /\ try_from_slice(validated[1].alg, Untrusted.signature).ok
  => /\ ~Result.ok
     /\ Result.err = (IF Untrusted.content_type = "Json" THEN "MalformedClaims"
                      ELSE "MalformedCborClaims")

\* A compact token with `exp` twice in its claims, whose signature does not
\* verify, was refused for its claims.
C7_Witness ==
  /\ Validated /\ SameAlgorithmAndKey
  /\ mangle.kind = "replace_claims" /\ mangle.class = "exp_twice"
  /\ Untrusted.content_type = "Cbor"
  /\ ~verify_signature(validated[1].alg,
                       try_from_slice(validated[1].alg, Untrusted.signature).signature,
                       validated[1].key, Untrusted.signed_data)
  /\ ~Result.ok /\ Result.err = "MalformedCborClaims"

\* The position of the last separator of the wire string.
LastDot == CHOOSE i \in Positions(wire, Dot) : \A j \in Positions(wire, Dot) : j <= i

\* The calls of verify_signature the validation made.
VerifyCalls == {i \in 1..Len(Result.calls) : Result.calls[i].fn = "verify_signature"}

\* C8: the signed data of an accepted input is the input before its last
\* separator, that is header segment, separator, claims segment; for an
\* issued token it is the message that was signed; and validate_integrity
\* passes exactly this span to verify_signature.
C8_SignedSpan ==
  /\ (parsed # None /\ parsed[1].ok =>
        /\ Untrusted.signed_data = SubSeq(wire, 1, LastDot - 1)
        /\ Untrusted.signed_data = Segments[1] \o << Dot >> \o Segments[2]
        /\ (mangle = NoMangle => Untrusted.signed_data = issued[1].signed))
  /\ (Validated =>
        \A i \in VerifyCalls : Result.calls[i].arg = Untrusted.signed_data)

\* A token whose header text holds whitespace, so that serializing the
\* parsed header anew gives other bytes, went through verify_signature.
C8_Witness ==
  /\ Validated /\ SameAlgorithmAndKey
  /\ mangle.kind = "replace_header" /\ mangle.class = "same_alg"
  /\ VerifyCalls # {}
  /\ Untrusted.signed_data # issued[1].signed

\* The four checks of validate_integrity, for the validation made.
AlgorithmMatches == NAME(validated[1].alg) = Untrusted.algorithm
SignatureReconstructed == try_from_slice(validated[1].alg, Untrusted.signature).ok
ClaimsDeserialized ==
  IF Untrusted.content_type = "Json"
    THEN DeserializeClaimsJson(Untrusted.serialized_claims).ok
  ELSE DeserializeClaimsCbor(Untrusted.serialized_claims).ok
SignatureVerified ==
  verify_signature(validated[1].alg,
                   try_from_slice(validated[1].alg, Untrusted.signature).signature,
                   validated[1].key, Untrusted.signed_data)

\* C9: validate_integrity returns a Token exactly when the algorithm name
\* matched, the signature was reconstructed, the claims deserialized under
\* the content type of the token and the signature verified over the signed
\* span; otherwise it returns an error and no token, header or claims.
C9_AllOrNothing ==
  Validated =>
    /\ Result.ok <=> (/\ AlgorithmMatches
                      /\ SignatureReconstructed
                      /\ ClaimsDeserialized
                      /\ SignatureVerified)
    /\ (Result.ok => DOMAIN Result = {"ok", "token", "calls"}
                     /\ Result.token.header = Untrusted.header)
    /\ (~Result.ok => DOMAIN Result = {"ok", "err", "calls"})

\* An issued token was validated with the algorithm of its issuance and a
\* key that does not match: three checks passed, the fourth did not, and
\* an error was returned.
C9_Witness ==
  /\ Validated /\ mangle = NoMangle
  /\ validated[1].alg = issued[1].alg /\ validated[1].key # issued[1].key
  /\ AlgorithmMatches /\ SignatureReconstructed /\ ClaimsDeserialized
  /\ ~SignatureVerified
  /\ ~Result.ok /\ Result.err = "InvalidSignature"

\* A point in time in half seconds (the times of the model are multiples of
\* half a second).
HalfSeconds(t) == 2 * t.secs + (IF t.nanos >= 500000000 THEN 1 ELSE 0)

\* C10: validate_expiration fails with Expired exactly when an expiration is
\* set and the current time minus the leeway is at or past it; without an
\* expiration it succeeds; on success it returns the claims it was given.
C10_ValidateExpiration ==
  pc = "checked" /\ checked[1].op = "validate_expiration" =>
    LET claims == Result.token.claims
        exp    == claims.expiration_date
        now    == checked[1].options.current_time
        leeway == checked[1].options.leeway
        result == checked[1].result
    IN  /\ ~result.ok <=>
             (exp # None /\ HalfSeconds(now) - 2 * leeway >= HalfSeconds(exp[1]))
        /\ (~result.ok => result.err = "Expired")
        /\ (result.ok => result.claims = claims)

\* With a leeway of one second, the claims were checked at the very instant
\* the current time minus the leeway reached the expiration, and refused.
C10_Witness ==
  /\ pc = "checked" /\ checked[1].op = "validate_expiration"
  /\ Result.token.claims.expiration_date # None
  /\ checked[1].options.leeway = 1
  /\ checked[1].options.current_time =
       DateTime(Result.token.claims.expiration_date[1].secs + 1, 0)
  /\ ~checked[1].result.ok /\ checked[1].result.err = "Expired"

\* C11: validate_maturity fails with NotMature exactly when a not-before
\* time is set and the current time plus the leeway is still before it;
\* without a not-before time it succeeds, whether or not an issuance or an
\* expiration time is set.
C11_ValidateMaturity ==
  pc = "checked" /\ checked[1].op = "validate_maturity" =>
    LET claims == Result.token.claims
        nbf    == claims.not_before
        now    == checked[1].options.current_time
        leeway == checked[1].options.leeway
        result == checked[1].result
    IN  /\ ~result.ok <=>
             (nbf # None /\ HalfSeconds(now) + 2 * leeway < HalfSeconds(nbf[1]))
        /\ (~result.ok => result.err = "NotMature")
        /\ (result.ok => result.claims = claims)

\* Claims that are not valid before the second 2 were checked half a second
\* before, with a leeway of one second, and accepted.
C11_Witness ==
  /\ pc = "checked" /\ checked[1].op = "validate_maturity"
  /\ Result.token.claims.not_before = Some(DateTime(2, 0))
  /\ checked[1].options = TimeOptions(DateTime(1, 500000000), 1)
  /\ checked[1].result.ok

\* C12: the header on the wire of an issued token has `alg` once, equal to
\* the NAME of the issuing algorithm, whatever the caller's Header; it has no
\* `cty` when issued by token() and `cty` = "CBOR" once when issued by
\* compact_token(); parsing the token gives that algorithm name, the content
\* type Json for token() and Cbor for compact_token(), and the claims bytes
\* in that format.
C12_HeaderStamping ==
  LET Stamped(h) ==
        LET alg == Occurrences(h.val.v, AlgKey)
            cty == Occurrences(h.val.v, CtyKey)
        IN  /\ h.ok /\ h.val.k = "obj"
            /\ Cardinality(alg) = 1
            /\ \A i \in alg : h.val.v[i].val = JStr(NAME(issued[1].alg))
            /\ IF issued[1].compact
                 THEN /\ Cardinality(cty) = 1
                      /\ \A i \in cty :
                           h.val.v[i].val = JStr(Str(<<"C", "B", "O", "R">>))
               ELSE cty = {}
  IN  /\ (issued # None /\ mangle = NoMangle =>
            Stamped(ParseJson(B64Decode(Segments[1]).bytes)))
      /\ (parsed # None /\ mangle = NoMangle =>
            /\ parsed[1].ok
            /\ Untrusted.algorithm = NAME(issued[1].alg)
            /\ Untrusted.content_type = (IF issued[1].compact THEN "Cbor" ELSE "Json")
            /\ Untrusted.serialized_claims =
                 (IF issued[1].compact THEN SerializeClaimsCbor(issued[1].claims)
                  ELSE SerializeClaimsJson(issued[1].claims)))

\* A compact token issued with a Header that sets a key identifier and a
\* type was parsed: ES256K and Cbor.
C12_Witness ==
  /\ pc = "parsed" /\ mangle = NoMangle
  /\ issued[1].compact /\ issued[1].alg = "ES256K"
  /\ issued[1].header # DefaultHeader
  /\ parsed[1].ok
  /\ Untrusted.algorithm = Str(<<"E", "S", "2", "5", "6", "K">>)
  /\ Untrusted.content_type = "Cbor"

\* The malformed-claims error of the content type of the validated token.
MalformedClaimsKind ==
  IF Untrusted.content_type = "Json" THEN "MalformedClaims" ELSE "MalformedCborClaims"

\* C13: when the declared algorithm matches, validate_integrity reports the
\* first failing check in the order signature reconstruction, claims
\* deserialization, signature verification: malformed signature bytes give
\* MalformedSignature also with malformed claims, and nothing else was
\* called; a well-formed signature with malformed claims gives the
\* malformed-claims error without a call of verify_signature;
\* InvalidSignature is returned only when both earlier checks passed.
C13_ValidationPrecedence ==
  Validated /\ AlgorithmMatches =>
    /\ (~SignatureReconstructed =>
          /\ ~Result.ok /\ Result.err = "MalformedSignature"
          /\ Result.calls = << Call("try_from_slice", Untrusted.signature) >>)
    /\ (SignatureReconstructed /\ ~ClaimsDeserialized =>
          /\ ~Result.ok /\ Result.err = MalformedClaimsKind
          /\ VerifyCalls = {}
          /\ Len(Result.calls) = 2 /\ Result.calls[1].fn = "try_from_slice")
    /\ (~Result.ok /\ Result.err = "InvalidSignature" =>
          /\ SignatureReconstructed /\ ClaimsDeserialized
          /\ Len(Result.calls) = 3 /\ VerifyCalls = {3})

\* A token whose signature bytes are malformed and whose claims are
\* malformed too was refused for its signature.
C13_Witness ==
  /\ Validated /\ AlgorithmMatches
  /\ mangle.kind = "flip_and_replace_claims"
  /\ ~SignatureReconstructed /\ ~ClaimsDeserialized
  /\ ~Result.ok /\ Result.err = "MalformedSignature"

\* The number of bytes that n characters of base64url without padding
\* stand for (n is not 1 modulo 4).
DecodedLength(n) == 3 * (n \div 4) + (IF n % 4 = 0 THEN 0 ELSE (n % 4) - 1)

\* C14: the buffer for the decoded signature, of 3 * (n + 3) / 4 bytes
\* (rounded down) for a segment of n characters, is never smaller than the
\* number of bytes decoded, and the signature of the parsed token is exactly
\* the decoded bytes, whether the buffer is inline (up to SIGNATURE_SIZE
\* bytes) or not.
C14_SignatureDecoding ==
  pc = "parsed" /\ Cardinality(Positions(wire, Dot)) = 2 =>
    LET n == Len(Segments[3])
        Exact(decoded, buffer) ==
          /\ decoded.ok =>
               /\ Len(decoded.bytes) = DecodedLength(n)
               /\ Len(decoded.bytes) <= (3 * (n + 3)) \div 4
               /\ buffer.fits
               /\ buffer.spilled <=> (3 * (n + 3)) \div 4 > SIGNATURE_SIZE
          /\ parsed[1].ok =>
               /\ decoded.ok
               /\ Untrusted.signature = decoded.bytes
               /\ (mangle.kind = "replace_signature" /\ mangle.extra = 0 =>
                     Untrusted.signature = SignatureBytes(mangle.len))
               /\ (mangle = NoMangle =>
                     Untrusted.signature =
                       as_bytes(sign(issued[1].alg, issued[1].key, issued[1].signed)))
    IN  Exact(B64Decode(Segments[3]), DecodeSignature(Segments[3]))

\* A signature of more bytes than the inline capacity of the buffer was
\* parsed whole.
C14_Witness ==
  /\ parsed # None /\ parsed[1].ok
  /\ mangle.kind = "replace_signature" /\ mangle.extra = 0
  /\ mangle.len > SIGNATURE_SIZE
  /\ DecodeSignature(Segments[3]).spilled
  /\ Len(Untrusted.signature) = mangle.len
  /\ Untrusted.signature = SignatureBytes(mangle.len)

\* The result try_from is to give for a string, by the order of its checks:
\* the number of segments, the base64url text of the header, of the claims
\* and of the signature, the header as JSON, the content type.
FirstParseError(s) ==
  LET parts == splitn(s, 4, Dot)
      Undecodable == {k \in 1..3 : ~B64Decode(parts[k]).ok}
      First(S) == CHOOSE k \in S : \A j \in S : k <= j
      Complete(header) ==
        IF ~header.ok THEN << "MalformedHeader" >>
        ELSE IF /\ header.content_type # None
                /\ \A t \in {Str(<<"j", "s", "o", "n">>), Str(<<"c", "b", "o", "r">>)} :
                     ~eq_ignore_ascii_case(header.content_type[1], t)
          THEN << "UnsupportedContentType" >>
        ELSE << >>
  IN  IF Cardinality(Positions(s, Dot)) # 2 THEN << "InvalidTokenStructure" >>
      ELSE IF Undecodable # {}
        THEN << "Base64", B64Decode(parts[First(Undecodable)]).cause >>
      ELSE Complete(DeserializeCompleteHeader(B64Decode(parts[1]).bytes))

\* The result try_from is to give for a token by what happened to it.
FirstFault(structure, header, faults) ==
  LET Damaged == {k \in 1..3 : faults[k] # "none"}
      First(S) == CHOOSE k \in S : \A j \in S : k <= j
  IN  IF structure # "three" THEN << "InvalidTokenStructure" >>
      ELSE IF Damaged # {} THEN << "Base64", FaultCause(faults[First(Damaged)]) >>
      ELSE IF header \in {"malformed", "malformed_unsupported"}
        THEN << "MalformedHeader" >>
      ELSE IF header = "unsupported" THEN << "UnsupportedContentType" >>
      ELSE << >>

\* The error of the parsing, with the cause of a Base64 error; empty when
\* the parsing succeeded.
ParseOutcome ==
  IF parsed[1].ok THEN << >>
  ELSE IF parsed[1].err = "Base64" THEN << "Base64", parsed[1].detail[1] >>
  ELSE << parsed[1].err >>

\* C15: try_from reports the first failing check in the order: number of
\* segments, base64url text of the header, of the claims, of the signature,
\* header JSON, content type. A wrong number of segments gives
\* InvalidTokenStructure whatever the segments hold, and an undecodable
\* claims or signature segment gives Base64 even when the header is
\* malformed or names an unsupported content type.
C15_ParsePrecedence ==
  pc = "parsed" =>
    /\ ParseOutcome = FirstParseError(wire)
    /\ (mangle.kind = "mangle_segments" =>
          ParseOutcome = FirstFault(mangle.structure, mangle.header, mangle.faults))

\* A token with a header without `alg`, a claims segment of an impossible
\* length and a signature segment with a character outside the alphabet
\* was refused for the claims segment.
C15_Witness ==
  /\ parsed # None
  /\ mangle.kind = "mangle_segments"
  /\ mangle.structure = "three"
  /\ mangle.header = "malformed_unsupported"
  /\ mangle.faults = << "none", "length", "byte" >>
  /\ ~DeserializeCompleteHeader(B64Decode(Segments[1]).bytes).ok
  /\ ~parsed[1].ok /\ parsed[1].err = "Base64"
  /\ parsed[1].detail = << "InvalidLength" >>

\* The segments of the issued string.
IssuedSegments == splitn(issued[1].string, 4, Dot)

\* The wire string ends with the signature segment of the issued string, and
\* what precedes the last separator is not what was signed.
KeepsSignatureOnly ==
  /\ Positions(wire, Dot) # {}
  /\ SubSeq(wire, LastDot + 1, Len(wire)) = IssuedSegments[3]
  /\ SubSeq(wire, 1, LastDot - 1) # issued[1].signed

\* C16: a string that keeps the signature segment of an issued token but
\* differs from it in the header or the claims segment never passes
\* validate_integrity with the algorithm and the matching key of the
\* issuance: it is refused by the parser, or the validation fails with
\* AlgorithmMismatch, a malformed-claims error or InvalidSignature.
C16_HeaderAndClaimsTamper ==
  /\ (pc = "parsed" /\ parsed[1].ok /\ KeepsSignatureOnly =>
        /\ Untrusted.signed_data # issued[1].signed
        /\ Untrusted.signature =
             as_bytes(sign(issued[1].alg, issued[1].key, issued[1].signed)))
  /\ (Validated /\ SameAlgorithmAndKey /\ KeepsSignatureOnly =>
        /\ ~Result.ok
        /\ Result.err \in {"AlgorithmMismatch", "MalformedClaims",
                           "MalformedCborClaims", "InvalidSignature"}
        /\ (AlgorithmMatches /\ ClaimsDeserialized =>
              /\ Result.err = "InvalidSignature"
              /\ \E i \in VerifyCalls : Result.calls[i].arg # issued[1].signed))

\* Well-formed claims other than the issued ones were put under the issued
\* header and signature, and the verification refused them.
C16_Witness ==
  /\ Validated /\ SameAlgorithmAndKey
  /\ mangle.kind = "replace_claims" /\ mangle.class = "other_claims"
  /\ KeepsSignatureOnly
  /\ Segments[1] = IssuedSegments[1] /\ Segments[2] # IssuedSegments[2]
  /\ AlgorithmMatches /\ ClaimsDeserialized
  /\ ~Result.ok /\ Result.err = "InvalidSignature"

====
